---- MODULE Spec2Model ----
(***************************************************************************)
(* Verification model of the rtyshyk/telegram-rag indexer and chat API.    *)
(*                                                                         *)
(* Part 1: BackfillStateStore (indexer/state.py), the per-chat backfill    *)
(*         checkpoint persisted to a JSON file.                            *)
(* Part 2: the indexer's work queue, its workers and process_message       *)
(*         (indexer/main.py, embedder.py, db.py, vespa_client.py).         *)
(* Part 3: ChatService.chat_stream (api/app/chat.py), the event stream of  *)
(*         a /chat request.                                                *)
(* Part 4: the daemon of indexer/main.py: resumable backfill, look-back,   *)
(*         hourly sweep, and the process being killed and started again.   *)
(*                                                                         *)
(* Record field lists follow their use in main.py and db.py.  The runtime  *)
(* metrics counters are kept as what one process_message call adds to      *)
(* them; the ghost counters api_calls and cache_writes stand for the       *)
(* effects the claims speak about.                                         *)
(***************************************************************************)
EXTENDS Integers, Sequences, FiniteSets, TLC

(***************************************************************************)
(* Bounds of the model.                                                    *)
(***************************************************************************)
MaxId == 3
MaxCalls == 4
MaxEnqueues == 3
MaxEdits == 2
MaxEnqueuesConc == 2
MaxEditsConc == 1
MaxQueue == 2
MaxLookbacks == 2
MaxSweeps == 1
MaxStops == 1
MaxDeltas == 2
MaxResults == 2
MaxChatRequests == 2
\* hits in one Vespa answer
MaxSeeds == 2
\* neighbour messages fetched for one seed
MaxMessages == 3
\* messages in the history of one chat
MaxHistory == 2
\* calls of feed_document
MaxFeeds == 2
\* calls of _embed_batch
MaxBatchCalls == 2
\* texts passed to one embed_texts call
MaxTexts == 3
\* message events delivered to the daemon
MaxEvents == 3
\* messages in the history of a backfilled chat
MaxBackfill == 4
\* _backfill_chat calls for one chat
MaxBackfills == 2
\* messages of the initial backfill and of the start-up look-back
MaxStartBackfill == 2
MaxStartLookback == 1
\* tokens of one text, target_chunk_tokens, chunk_overlap_tokens
MaxTokens == 4
MaxTarget == 3
MaxOverlap == 2
\* candidates passed to one rerank call, indices in the provider's response
MaxCandidates == 2
MaxItems == 2
\* items waiting in the queue when a live event is accepted, and live
\* events after the backfill
MaxBacklog == 2
MaxLateEvents == 2
MaxNow == 80
TickSeconds == 20

StoreChats == {"c1", "c2"}
Tasks == {1, 2}
Ids == 1..MaxId

VARIABLES
    \* ---- BackfillStateStore (indexer/state.py)
    disk_exists,   \* self.path.exists()
    disk,          \* the "chats" object of the JSON file: chat_id -> record
    bs_state,      \* self._state
    bs_loaded,     \* self._loaded
    bs_lock,       \* holder of self._lock (0 = unlocked)
    st_pc,         \* position of each task inside update_chat
    st_arg,        \* arguments (chat_id, message_id) of each task's call
    st_buf,        \* content read from / payload to be written to the file
    calls,         \* number of update_chat calls started (also the clock)
    max_passed,    \* ghost: chat_id -> greatest message_id ever passed
    start_disk,    \* ghost: file content when the store object was created
    \* ---- settings and CLI arguments of the indexer
    dry_run,       \* args.dry_run
    budget,        \* settings.daily_embed_budget_usd, in 1e-9 USD
    nworkers,      \* daemon_worker_concurrency
    \* ---- the chat platform
    tg,            \* <<chat_id, message_id>> -> current message
    edits,         \* number of edits made so far (also the edit clock)
    \* ---- durable stores
    chunks,        \* rows of the chunks table
    index,         \* documents of the search index
    cache,         \* text_hash keys of the embedding_cache table
    \* ---- TelegramIndexer
    queue,         \* self.message_queue
    enqueued,      \* number of work items put on the queue so far
    wk,            \* per worker: position and local variables
    wk_last,       \* how the worker's last process_message ended
    \* ---- ghosts
    api_calls,     \* embeddings.create calls made so far
    cache_writes,  \* cache_embedding calls made so far
    call_pre,      \* per worker: counters and chunk rows at call entry
    call_est,      \* per worker: estimated cost of the embed_texts call
    call_ret,      \* per worker: how the embed_texts call ended
    call_metrics,  \* per worker: what the call has added to the metrics
    last_done,     \* <<chat_id, message_id>> -> <<text, edit_date>> last ingested
    \* ---- the daemon (TelegramIndexer.run_daemon_mode)
    ckpt_interval, \* self.backfill_checkpoint_interval
    lb_from,       \* first message id inside the look-back window
    sw_from,       \* first message id inside the hourly sweep window
    dm_pc,         \* position of run_daemon_mode
    bf,            \* locals of _backfill_chat
    lb_lock,       \* holder of self._lookback_lock ("" = unlocked)
    lb,            \* per caller of _run_recent_lookback: position and locals
    lb_calls,      \* _run_recent_lookback calls made by this process
    sw,            \* position and locals of _hourly_sweep_loop
    sweeps,        \* sweeps started by this process
    stops,         \* number of times the process was stopped or killed
    \* ---- the chat API (api/app/chat.py)
    rl_limit,      \* chat_rate_limiter.max_requests
    rl_requests,   \* self.requests: user_id -> request times
    now,           \* time.time(), in seconds
    accepted,      \* ghost: user_id -> times of all accepted requests
    cs_pc,         \* position of chat_stream
    cs_in,         \* the request and what the services answer to it
    events,        \* types of the chunks the stream has yielded
    chat_requests, \* number of /chat requests made
    cs_failed,     \* ghost: how the stages of the request failed
    \* ---- VespaSearchClient.search (api/app/search.py)
    sr_set,        \* the settings the search reads
    sr_req,        \* the SearchRequest: limit and expansion_level
    sr_hits,       \* seed_hits: the seeds parsed from the Vespa answer
    sr_pc,         \* position of the search call
    sr_seeds,      \* filtered_seeds
    sr_expanded,   \* outcome of _build_candidate for every filtered seed
    sr_cands,      \* candidates
    sr_out,        \* the list the call returns
    sr_budget,     \* final_limit, seed_limit and rerank_cap of the call
    sr_answer,     \* ghost: what the reranker answered
    sr_failed,     \* ghost: the dependencies that failed before the expansion
    \* ---- VespaSearchClient._assemble_candidate (api/app/search.py)
    as_set,        \* search_candidate_max_messages, search_candidate_token_limit
    as_seed,       \* the seed: message id and text
    as_msgs,       \* messages: the neighbours fetched for the seed
    as_pc,         \* position of the call
    as_out         \* the candidate returned, or NoCandidate

storeVars == <<disk_exists, disk, bs_state, bs_loaded, bs_lock, st_pc, st_arg,
               st_buf, calls, max_passed, start_disk>>

cfgVars == <<dry_run, budget, nworkers>>

tgVars == <<tg, edits>>

dbVars == <<chunks, index, cache>>

wkVars == <<wk, wk_last>>

ghostVars == <<api_calls, cache_writes, call_pre, call_est, call_ret,
               call_metrics, last_done>>

ixVars == <<cfgVars, tgVars, dbVars, queue, enqueued, wkVars, ghostVars>>

dmCfgVars == <<ckpt_interval, lb_from, sw_from>>

lbVars == <<lb_lock, lb, lb_calls>>

dmVars == <<dmCfgVars, dm_pc, bf, lbVars, sw, sweeps, stops>>

rlVars == <<rl_limit, rl_requests, now, accepted>>

csVars == <<cs_pc, cs_in, events, chat_requests, cs_failed>>

chatVars == <<rlVars, csVars>>

srVars == <<sr_set, sr_req, sr_hits, sr_pc, sr_seeds, sr_expanded, sr_cands,
            sr_out, sr_budget, sr_answer, sr_failed>>

asVars == <<as_set, as_seed, as_msgs, as_pc, as_out>>

searchVars == <<srVars, asVars>>

VARIABLES
    \* ---- one-shot run (indexer/main.py run_once, process_chat)
    oc_limit,      \* self.args.limit_messages (0: not given)
    oc_hist,       \* chat -> the chat's history as Telegram lists it
    oc_pc,         \* position of run_once
    oc_chat,       \* index of the chat of the current loop round
    oc_pos,        \* next position of the listing of the current chat
    oc_count,      \* messages_processed of the current process_chat call
    oc_total,      \* total_messages_processed
    oc_asked,      \* ghost: limit passed to each process_chat call
    oc_processed,  \* ghost: <<chat, position>> of every processed message
    oc_flood,      \* ghost: a listing ended on a flood wait
    \* ---- VespaClient.feed_document (indexer/vespa_client.py)
    fd_pc,         \* position of the call
    fd_attempt,    \* attempt, the loop variable
    fd_log,        \* ghost: the answers to the POSTs of the call
    fd_ret,        \* value returned by the call
    fd_metrics,    \* self.metrics: vespa_feed_success, _retries, _failures
    fd_before,     \* ghost: the metrics when the call started
    fd_calls       \* number of calls started


onceVars == <<oc_limit, oc_hist, oc_pc, oc_chat, oc_pos, oc_count, oc_total,
              oc_asked, oc_processed, oc_flood>>

feedVars == <<fd_pc, fd_attempt, fd_log, fd_ret, fd_metrics, fd_before, fd_calls>>

VARIABLES
    \* ---- EmbeddingProvider._embed_batch (indexer/embedder.py)
    eb_base,       \* settings.backoff_base_ms
    eb_pc,         \* position of the call
    eb_attempt,    \* attempt, the loop variable
    eb_log,        \* ghost: the API calls and sleeps of the call, in order
    eb_ret,        \* how the call ended: "none", "results" or the error raised
    eb_calls       \* number of calls started

batchVars == <<eb_base, eb_pc, eb_attempt, eb_log, eb_ret, eb_calls>>

VARIABLES
    \* ---- EmbeddingProvider.embed_texts (indexer/embedder.py)
    et_texts,      \* texts, the argument
    et_bsize,      \* self.batch_size
    et_cache,      \* the text hashes of the embedding_cache table
    et_cache0,     \* ghost: the cache when the call started
    et_pc,         \* position of the call
    et_i,          \* index of the text whose cache entry is looked up next
    et_results,    \* results
    et_misses,     \* texts_to_embed
    et_tasks,      \* the _embed_batch tasks: batch, attempt, state
    et_sent        \* ghost: per task, the payload and the numbers of API calls

embedVars == <<et_texts, et_bsize, et_cache, et_cache0, et_pc, et_i,
               et_results, et_misses, et_tasks, et_sent>>

VARIABLES
    \* ---- tombstones and retrieval (indexer/db.py, api/app/search.py)
    tb_chunks,     \* rows of the chunks table: chat_id, message_id, deleted_at
    tb_index,      \* documents of the search engine: chat_id, message_id
    tb_pc,         \* position of the search
    tb_req,        \* req.chat_id of the search ("": no chat filter)
    tb_seeds,      \* documents returned by the seed query
    tb_neighbors,  \* documents returned by the neighbour queries of the seeds
    tb_tombs       \* ghost: the documents tombstoned when the search started

tombVars == <<tb_chunks, tb_index, tb_pc, tb_req, tb_seeds, tb_neighbors,
              tb_tombs>>

VARIABLES
    \* ---- the worker pool and the shutdown (indexer/main.py)
    wq,            \* self.message_queue: work items (ids) and None sentinels
    wq_unfinished, \* the queue's count of unfinished tasks (join waits for 0)
    ww,            \* per worker task: position and item
    sd_pc,         \* position of run_daemon_mode
    sd_event,      \* self._shutdown_event is set
    sd_handlers,   \* the event handlers are registered
    wl_events,     \* number of message events delivered so far
    wl_done,       \* ghost: item -> number of task_done calls made for it
    wl_attempted,  \* ghost: the items whose process_message call has ended
    wl_taken,      \* ghost: per worker, the number of sentinels taken
    wl_late,       \* ghost: the items put on the queue after the sentinels
    wl_raised      \* ghost: <<worker, item>> for each process_message call that raised

loopVars == <<wq, wq_unfinished, ww, sd_pc, sd_event, sd_handlers,
              wl_events, wl_done, wl_attempted, wl_taken, wl_late, wl_raised>>

VARIABLES
    \* ---- the backfill of one chat (indexer/main.py _backfill_chat)
    bk_hist,       \* the history of the chat: the kind of message id i
    bk_interval,   \* self.backfill_checkpoint_interval
    bk_ckpt,       \* the persisted checkpoint of the chat (0: none)
    bk_pc,         \* position of the _backfill_chat call
    bk_limit,      \* limit_messages of the call (0: None)
    bk_resume,     \* resume_from (0: None)
    bk_list,       \* the ids Telegram lists for the get_messages request
    bk_pos,        \* position of the iterator in the listing
    bk_local,      \* processed, latest_id, checkpoint_counter
    bk_enq,        \* ghost: the ids the call has enqueued
    bk_end,        \* ghost: how the message loop of the call ended
    bk_runs        \* number of _backfill_chat calls so far

bkVars == <<bk_hist, bk_interval, bk_ckpt, bk_pc, bk_limit, bk_resume,
            bk_list, bk_pos, bk_local, bk_enq, bk_end, bk_runs>>

VARIABLES
    \* ---- the start-up of the daemon (indexer/main.py run_daemon_mode)
    su_pc,         \* position of run_daemon_mode
    su_handlers,   \* the event handlers are registered
    su_left,       \* messages the initial backfill has yet to enqueue
    su_lb_left,    \* messages the start-up look-back has yet to enqueue
    su_lb_queued,  \* messages the start-up look-back has enqueued
    su_queue,      \* the message queue: the origin of each waiting item
    su_busy,       \* per worker: the origin of the item it processes ("": none)
    su_woken,      \* the waiter of message_queue.join() has been woken
    su_tasks,      \* the background tasks created so far
    su_late,       \* number of live events after the backfill
    su_seen        \* ghost: milestones of the start-up reached so far

startVars == <<su_pc, su_handlers, su_left, su_lb_left, su_lb_queued,
               su_queue, su_busy, su_woken, su_tasks, su_late, su_seen>>

VARIABLES
    \* ---- the trimming loop of _assemble_candidate (api/app/search.py)
    tr_filtered,   \* filtered: the records of the window
    tr_seed_id,    \* seed.message_id
    tr_max_chars,  \* max_chars
    tr_pc,         \* position: "loop" or "done"
    tr_drops       \* number of passes of the loop so far

trimVars == <<tr_filtered, tr_seed_id, tr_max_chars, tr_pc, tr_drops>>

VARIABLES
    \* ---- one call of VoyageReranker.rerank (api/app/search.py)
    rk_results,    \* results: the candidates passed in
    rk_top_n,      \* top_n
    rk_answer,     \* the provider's response: an error or the indices it names
    rk_pc,         \* position: "call" or "done"
    rk_out,        \* the list returned
    rk_raised      \* the call ended by an exception

rkVars == <<rk_results, rk_top_n, rk_answer, rk_pc, rk_out, rk_raised>>

VARIABLES
    \* ---- TextChunker.chunk_text (indexer/chunker.py)
    ck_text,       \* text_tokens: the tokens of text, each a sequence of characters
    ck_header,     \* the tokens of header (<<>>: no header)
    ck_target,     \* self.target_tokens
    ck_overlap,    \* self.overlap_tokens
    ck_pc,         \* position: "call", "loop" or "done"
    ck_start,      \* start
    ck_chunks,     \* chunks: the (full_text, bm25_text) pairs emitted so far
    ck_starts,     \* the value of start each chunk was cut at
    ck_passes      \* number of passes of the while loop so far

chunkVars == <<ck_text, ck_header, ck_target, ck_overlap, ck_pc, ck_start,
               ck_chunks, ck_starts, ck_passes>>

\* components that are checked on their own
compVars == <<onceVars, feedVars, batchVars, embedVars, tombVars, loopVars, bkVars, startVars, trimVars, rkVars, chunkVars>>

vars == <<storeVars, ixVars, dmVars, chatVars, searchVars, compVars>>

(***************************************************************************)
(* Dictionaries are functions whose DOMAIN is the set of keys present.     *)
(***************************************************************************)
EmptyDict == [k \in {} |-> 0]

DictSet(d, k, v) == [x \in (DOMAIN d) \cup {k} |-> IF x = k THEN v ELSE d[x]]

\* dict.update(): every key of src overwrites the key of dst
DictUpdate(dst, src) ==
    [x \in (DOMAIN dst) \cup (DOMAIN src) |-> IF x \in DOMAIN src THEN src[x] ELSE dst[x]]

BackfillRecord(id, at) == [last_message_id |-> id, updated_at |-> at]

Max2(a, b) == IF a >= b THEN a ELSE b

(***************************************************************************)
(* BackfillStateStore.update_chat, lines 71-74: nothing to persist when    *)
(* the chat has a record whose last_message_id >= message_id.              *)
(***************************************************************************)
NoProgressAlways(st, chat_id, message_id) == FALSE

NoProgress(st, chat_id, message_id) ==
    chat_id \in DOMAIN st /\ st[chat_id].last_message_id >= message_id

InitStore ==
    /\ disk_exists = FALSE
    /\ disk = EmptyDict
    /\ bs_state = EmptyDict
    /\ bs_loaded = FALSE
    /\ bs_lock = 0
    /\ st_pc = [t \in Tasks |-> "idle"]
    /\ st_arg = [t \in Tasks |-> <<"c1", 1>>]
    /\ st_buf = [t \in Tasks |-> EmptyDict]
    /\ calls = 0
    /\ max_passed = EmptyDict
    /\ start_disk = EmptyDict

(***************************************************************************)
(* update_chat(chat_id, message_id) begins with `await self.load()`.       *)
(* load() returns at once when _loaded is set or the file is missing;      *)
(* otherwise it suspends on asyncio.to_thread(read_text).                  *)
(***************************************************************************)
StartUpdate(t, chat_id, message_id) ==
    /\ st_pc[t] = "idle"
    /\ calls < MaxCalls
    /\ calls' = calls + 1
    /\ st_arg' = [st_arg EXCEPT ![t] = <<chat_id, message_id>>]
    /\ max_passed' = DictSet(max_passed, chat_id,
                             IF chat_id \in DOMAIN max_passed
                             THEN Max2(max_passed[chat_id], message_id)
                             ELSE message_id)
    /\ IF bs_loaded
       THEN /\ st_pc' = [st_pc EXCEPT ![t] = "lock"]
            /\ UNCHANGED bs_loaded
       ELSE IF ~disk_exists
            THEN /\ bs_loaded' = TRUE
                 /\ st_pc' = [st_pc EXCEPT ![t] = "lock"]
            ELSE /\ st_pc' = [st_pc EXCEPT ![t] = "reading"]
                 /\ UNCHANGED bs_loaded
    /\ UNCHANGED <<disk_exists, disk, bs_state, bs_lock, st_buf, start_disk>>

\* the worker thread of asyncio.to_thread(self.path.read_text) reads the file
ReadFile(t) ==
    /\ st_pc[t] = "reading"
    /\ st_buf' = [st_buf EXCEPT ![t] = disk]
    /\ st_pc' = [st_pc EXCEPT ![t] = "loaded"]
    /\ UNCHANGED <<disk_exists, disk, bs_state, bs_loaded, bs_lock, st_arg,
                   calls, max_passed, start_disk>>

\* load() lines 43-58: every record of the file is stored into self._state
LoadFinish(t) ==
    /\ st_pc[t] = "loaded"
    /\ bs_state' = DictUpdate(bs_state, st_buf[t])
    /\ bs_loaded' = TRUE
    /\ st_pc' = [st_pc EXCEPT ![t] = "lock"]
    /\ UNCHANGED <<disk_exists, disk, bs_lock, st_arg, st_buf, calls,
                   max_passed, start_disk>>

(***************************************************************************)
(* update_chat lines 70-82, from acquiring the lock to the suspension      *)
(* inside _persist: the payload is serialised from self._state before      *)
(* asyncio.to_thread(write_text) is awaited.                               *)
(***************************************************************************)
AcquireAndUpdate(t) ==
    /\ st_pc[t] = "lock"
    /\ bs_lock = 0
    /\ LET chat_id == st_arg[t][1]
           message_id == st_arg[t][2]
       IN IF NoProgress(bs_state, chat_id, message_id)
          THEN /\ st_pc' = [st_pc EXCEPT ![t] = "idle"]
               /\ UNCHANGED <<bs_state, bs_lock, st_buf>>
          ELSE /\ bs_state' = DictSet(bs_state, chat_id,
                                      BackfillRecord(message_id, calls))
               /\ bs_lock' = t
               /\ st_buf' = [st_buf EXCEPT ![t] = bs_state']
               /\ st_pc' = [st_pc EXCEPT ![t] = "writing"]
    /\ UNCHANGED <<disk_exists, disk, bs_loaded, st_arg, calls, max_passed,
                   start_disk>>

\* write_text completes, _persist returns and the lock is released
PersistDone(t) ==
    /\ st_pc[t] = "writing"
    /\ bs_lock = t
    /\ disk' = st_buf[t]
    /\ disk_exists' = TRUE
    /\ bs_lock' = 0
    /\ st_pc' = [st_pc EXCEPT ![t] = "idle"]
    /\ UNCHANGED <<bs_state, bs_loaded, st_arg, st_buf, calls, max_passed,
                   start_disk>>

\* a new process: BackfillStateStore.__init__ on the same path
NewStore ==
    /\ \A t \in Tasks : st_pc[t] = "idle"
    /\ bs_loaded
    /\ bs_state' = EmptyDict
    /\ bs_loaded' = FALSE
    /\ bs_lock' = 0
    /\ start_disk' = disk
    /\ UNCHANGED <<disk_exists, disk, st_pc, st_arg, st_buf, calls,
                   max_passed>>

StoreStep(T) ==
    /\ \/ \E t \in T, c \in StoreChats, i \in Ids : StartUpdate(t, c, i)
       \/ \E t \in T : ReadFile(t)
       \/ \E t \in T : LoadFinish(t)
       \/ \E t \in T : AcquireAndUpdate(t)
       \/ \E t \in T : PersistDone(t)
       \/ NewStore
    /\ UNCHANGED <<chatVars, compVars, searchVars, ixVars, dmVars>>

(***************************************************************************)
(* Part 2.  The indexer: messages, chunks, embedding, feeding.             *)
(***************************************************************************)
IxChats == {"c1"}
MsgIds == {1, 2}
MsgKeys == IxChats \X MsgIds
Workers == {1, 2}

\* message texts: "S" fits one chunk, "L" is split into two, "" has no text
Texts == {"S", "L"}

\* settings (indexer/settings.py)
EmbedModel == "text-embedding-3-large"
ChunkingVersion == 1
PreprocessVersion == 1

\* budgets offered to the model, in 1e-9 USD (0 = disabled)
BudgetChoices == {0, 338, 1000}

\* message 2 is a reply to message 1 (0 stands for reply_to_msg_id = None)
ReplyTo(message_id) == IF message_id = 2 THEN 1 ELSE 0

\* TextChunker.chunk_text: the number of chunks of a composed text
NumChunks(text) == IF text = "" THEN 0 ELSE IF text = "L" THEN 2 ELSE 1

\* compose_message_with_reply + chunk_text: full text of chunk idx; the
\* header is the same for every version of a message and is left out
FullText(text, reply_text, idx) == <<text, reply_text, idx>>

\* len(text.split()) of a chunk's full text
Words(full_text) ==
    (IF full_text[1] = "L" THEN 3 ELSE 2) + (IF full_text[2] = "" THEN 0 ELSE 1)

\* sha256 over "text|model|chunking_version|preprocess_version": an
\* injective function of the hashed string
TextHash(full_text) == <<full_text, EmbedModel, ChunkingVersion, PreprocessVersion>>

\* Embedder._compute_text_hash: the same fields followed by the language
ComputeTextHash(full_text) ==
    <<full_text, EmbedModel, ChunkingVersion, PreprocessVersion, "">>

ChunkId(chat_id, message_id, chunk_idx) ==
    <<chat_id, message_id, chunk_idx, ChunkingVersion>>

\* Embedder.price_per_1k_tokens in 1e-5 USD, with the .get() default
PricePer1k(model) ==
    IF model = "text-embedding-3-large" THEN 13
    ELSE IF model = "text-embedding-3-small" THEN 2
    ELSE 10

RECURSIVE SumWords(_)
SumWords(texts) ==
    IF texts = <<>> THEN 0 ELSE Words(Head(texts)) + SumWords(Tail(texts))

\* embed_texts lines 118-120 and 125: int(sum of len(text.split()) * 1.3)
TotalTokens(missed_texts) == (13 * SumWords(missed_texts)) \div 10

\* IndexerMetrics counters of the indexer and the embedder, all unchanged
NoIncrements ==
    [messages_indexed |-> 0, chunks_written |-> 0, embed_calls |-> 0,
     embed_cached_hits |-> 0, embed_cached_misses |-> 0, total_tokens |-> 0,
     cost_estimate |-> 0]

\* embed_texts lines 118-123 in 1e-9 USD: words * 1.3 / 1000 * price
EstimatedCost(missed_texts) == 13 * SumWords(missed_texts) * PricePer1k(EmbedModel)

\* embed_texts line 140
BudgetExceededStrict(b, estimated_cost) == b > 0 /\ estimated_cost > b

BudgetExceeded(b, estimated_cost) == b > 0 /\ estimated_cost >= b

\* rows of the chunks table of one message (get_existing_chunks)
ExistingChunks(tbl, chat_id, message_id) ==
    {i \in DOMAIN tbl : tbl[i].chat_id = chat_id /\ tbl[i].message_id = message_id}

\* TelegramIndexer._message_needs_update; edit_date 0 stands for None
MessageNeedsUpdateAlways(tbl, existing, edit_date) == TRUE

MessageNeedsUpdate(tbl, existing, edit_date) ==
    IF existing = {} THEN TRUE
    ELSE /\ edit_date # 0
         /\ \E i \in existing : tbl[i].edit_date = 0 \/ edit_date > tbl[i].edit_date

\* INSERT ... ON CONFLICT (chunk_id) DO UPDATE SET text_hash, edit_date, ...
UpsertInsertOnly(tbl, row) == Append(tbl, row)

Upsert(tbl, row) ==
    IF \E i \in DOMAIN tbl : tbl[i].chunk_id = row.chunk_id
    THEN [i \in DOMAIN tbl |->
            IF tbl[i].chunk_id = row.chunk_id
            THEN [tbl[i] EXCEPT !.text_hash = row.text_hash,
                                !.edit_date = row.edit_date]
            ELSE tbl[i]]
    ELSE Append(tbl, row)

\* POST {feed_url_base}/{doc.id}: the document API replaces the document
FeedPut(idx, doc) ==
    IF \E i \in DOMAIN idx : idx[i].id = doc.id
    THEN [i \in DOMAIN idx |-> IF idx[i].id = doc.id THEN doc ELSE idx[i]]
    ELSE Append(idx, doc)

NoItem == [chat_id |-> "", message_id |-> 0, text |-> "", edit_date |-> 0]

\* a worker waiting on message_queue.get(); its locals are unset
IdleWorker ==
    [pc |-> "idle", item |-> NoItem, objs |-> <<>>, results |-> <<>>,
     misses |-> <<>>, i |-> 0]

NoPre == [api |-> 0, writes |-> 0, rows |-> {}, again |-> FALSE]

\* the (chunk_id, text_hash) pairs stored for a message
StoredPairs(tbl, chat_id, message_id) ==
    {<<tbl[i].chunk_id, tbl[i].text_hash>> : i \in ExistingChunks(tbl, chat_id, message_id)}

InitIndexer(n, dry_runs, budgets) ==
    /\ dry_run \in dry_runs
    /\ budget \in budgets
    /\ nworkers = n
    /\ tg = [k \in MsgKeys |-> [text |-> "L", edit_date |-> 0]]
    /\ edits = 0
    /\ chunks = <<>>
    /\ index = <<>>
    /\ cache = {}
    /\ queue = <<>>
    /\ enqueued = 0
    /\ wk = [w \in Workers |-> IdleWorker]
    /\ wk_last = [w \in Workers |-> "none"]
    /\ api_calls = 0
    /\ cache_writes = 0
    /\ call_pre = [w \in Workers |-> NoPre]
    /\ call_est = [w \in Workers |-> 0]
    /\ call_ret = [w \in Workers |-> "none"]
    /\ call_metrics = [w \in Workers |-> NoIncrements]
    /\ last_done = EmptyDict

(***************************************************************************)
(* The chat platform: a message is edited (new text, later edit_date).     *)
(***************************************************************************)
EditMessage(k, text, max_edits) ==
    /\ edits < max_edits
    /\ text # tg[k].text
    /\ edits' = edits + 1
    /\ tg' = [tg EXCEPT ![k] = [text |-> text, edit_date |-> edits + 1]]
    /\ UNCHANGED <<cfgVars, dbVars, queue, enqueued, wkVars, ghostVars>>

(***************************************************************************)
(* _enqueue_message_data with the message as the caller read it (backfill, *)
(* live event, look-back or sweep): blank texts are not queued.            *)
(***************************************************************************)
MsgData(k) ==
    [chat_id |-> k[1], message_id |-> k[2], text |-> tg[k].text,
     edit_date |-> tg[k].edit_date]

EnqueueMessageData(k, max_enqueues) ==
    /\ enqueued < max_enqueues
    /\ Len(queue) < MaxQueue
    /\ tg[k].text # ""
    /\ queue' = Append(queue, MsgData(k))
    /\ enqueued' = enqueued + 1
    /\ UNCHANGED <<cfgVars, tgVars, dbVars, wkVars, ghostVars>>

(***************************************************************************)
(* _worker_loop line 239: take the next item.                              *)
(***************************************************************************)
WorkerGet(w) ==
    /\ w <= nworkers
    /\ wk[w].pc = "idle"
    /\ queue # <<>>
    /\ queue' = Tail(queue)
    /\ wk' = [wk EXCEPT ![w] = [IdleWorker EXCEPT !.pc = "process",
                                                  !.item = Head(queue)]]
    /\ UNCHANGED <<cfgVars, tgVars, dbVars, enqueued, wk_last, ghostVars>>

\* chunk_objects with their texts (process_message lines 679-708)
ChunkObjects(item, reply_text) ==
    [idx \in 1..NumChunks(item.text) |->
        [chunk_id |-> ChunkId(item.chat_id, item.message_id, idx - 1),
         chat_id |-> item.chat_id,
         message_id |-> item.message_id,
         chunk_idx |-> idx - 1,
         text_hash |-> TextHash(FullText(item.text, reply_text, idx - 1)),
         edit_date |-> item.edit_date,
         full_text |-> FullText(item.text, reply_text, idx - 1)]]

(***************************************************************************)
(* process_message lines 634-708: look the message up, return when it is   *)
(* stored and needs no update, else fetch the reply text and build the     *)
(* chunk objects.  A return ends the worker's iteration (lines 244-254).   *)
(***************************************************************************)
ProcessLookup(w) ==
    /\ wk[w].pc = "process"
    /\ LET item == wk[w].item
           key == <<item.chat_id, item.message_id>>
           existing == ExistingChunks(chunks, item.chat_id, item.message_id)
           reply_text == IF ReplyTo(item.message_id) = 0 THEN ""
                         ELSE tg[<<item.chat_id, ReplyTo(item.message_id)>>].text
       IN /\ call_pre' = [call_pre EXCEPT ![w] =
                [api |-> api_calls, writes |-> cache_writes,
                 rows |-> StoredPairs(chunks, item.chat_id, item.message_id),
                 again |-> /\ key \in DOMAIN last_done
                           /\ last_done[key] = <<item.text, item.edit_date>>]]
          /\ call_metrics' = [call_metrics EXCEPT ![w] = NoIncrements]
          /\ IF existing # {} /\ ~MessageNeedsUpdate(chunks, existing, item.edit_date)
             THEN /\ wk' = [wk EXCEPT ![w] = IdleWorker]
                  /\ wk_last' = [wk_last EXCEPT ![w] = "skipped"]
             ELSE /\ wk' = [wk EXCEPT ![w].pc = "embed",
                                      ![w].objs = ChunkObjects(item, reply_text)]
                  /\ UNCHANGED wk_last
    /\ UNCHANGED <<cfgVars, tgVars, dbVars, queue, enqueued, api_calls,
                   cache_writes, call_est, call_ret, last_done>>

\* self.embedder.batch_size (settings.embed_batch_size)
BatchSize == 64

NumBatches(n) == (n + BatchSize - 1) \div BatchSize

RECURSIVE CacheHits(_, _)
CacheHits(objs, c) ==
    IF objs = <<>> THEN <<>>
    ELSE LET h == ComputeTextHash(Head(objs).full_text)
         IN (IF h \in c THEN <<h>> ELSE <<>>) \o CacheHits(Tail(objs), c)

RECURSIVE CacheMisses(_, _)
CacheMisses(objs, c) ==
    IF objs = <<>> THEN <<>>
    ELSE LET h == ComputeTextHash(Head(objs).full_text)
         IN (IF h \in c THEN <<>> ELSE <<Head(objs).full_text>>)
            \o CacheMisses(Tail(objs), c)

HashesOf(texts) == [i \in DOMAIN texts |-> ComputeTextHash(texts[i])]

(***************************************************************************)
(* embed_texts lines 90-130: probe the cache for every text, return when   *)
(* nothing is missing, else estimate the cost of the misses.  When the     *)
(* call returns, process_message goes on at line 713.                      *)
(***************************************************************************)
EmbedProbeNoDryReturn(w) ==
    /\ wk[w].pc = "embed"
    /\ LET hits == CacheHits(wk[w].objs, cache)
           misses == CacheMisses(wk[w].objs, cache)
       IN /\ call_est' = [call_est EXCEPT ![w] = EstimatedCost(misses)]
          /\ call_metrics' = [call_metrics EXCEPT
                 ![w].embed_cached_hits = @ + Len(hits),
                 ![w].embed_cached_misses = @ + Len(misses),
                 ![w].total_tokens = @ + TotalTokens(misses),
                 ![w].cost_estimate = @ + EstimatedCost(misses)]
          /\ IF misses = <<>>
             THEN /\ call_ret' = [call_ret EXCEPT ![w] = "returned"]
                  /\ wk' = [wk EXCEPT ![w].pc = "upsert",
                                      ![w].results = hits,
                                      ![w].i = 1]
                  /\ UNCHANGED wk_last
             ELSE /\ call_ret' = [call_ret EXCEPT ![w] = "running"]
                  /\ wk' = [wk EXCEPT ![w].pc = "gate",
                                      ![w].results = hits,
                                      ![w].misses = misses]
                  /\ UNCHANGED wk_last
    /\ UNCHANGED <<cfgVars, tgVars, dbVars, queue, enqueued, api_calls,
                   cache_writes, call_pre, last_done>>

EmbedProbe(w) ==
    /\ wk[w].pc = "embed"
    /\ LET hits == CacheHits(wk[w].objs, cache)
           misses == CacheMisses(wk[w].objs, cache)
       IN /\ call_est' = [call_est EXCEPT ![w] = EstimatedCost(misses)]
          /\ call_metrics' = [call_metrics EXCEPT
                 ![w].embed_cached_hits = @ + Len(hits),
                 ![w].embed_cached_misses = @ + Len(misses),
                 ![w].total_tokens = @ + TotalTokens(misses),
                 ![w].cost_estimate = @ + EstimatedCost(misses)]
          /\ IF misses = <<>>
             THEN /\ call_ret' = [call_ret EXCEPT ![w] = "returned"]
                  /\ IF dry_run
                     THEN /\ wk' = [wk EXCEPT ![w] = IdleWorker]
                          /\ wk_last' = [wk_last EXCEPT ![w] = "dry_run"]
                     ELSE /\ wk' = [wk EXCEPT ![w].pc = "upsert",
                                              ![w].results = hits,
                                              ![w].i = 1]
                          /\ UNCHANGED wk_last
             ELSE /\ call_ret' = [call_ret EXCEPT ![w] = "running"]
                  /\ wk' = [wk EXCEPT ![w].pc = "gate",
                                      ![w].results = hits,
                                      ![w].misses = misses]
                  /\ UNCHANGED wk_last
    /\ UNCHANGED <<cfgVars, tgVars, dbVars, queue, enqueued, api_calls,
                   cache_writes, call_pre, last_done>>

(***************************************************************************)
(* embed_texts lines 132-144: a dry run returns the cached results, a cost *)
(* at or over the budget raises; the worker logs the error (lines 246-254).*)
(***************************************************************************)
EmbedGateLate(w) ==
    /\ wk[w].pc = "gate"
    /\ ~dry_run
    /\ api_calls' = api_calls + NumBatches(Len(wk[w].misses))
    /\ cache_writes' = cache_writes + Len(wk[w].misses)
    /\ cache' = cache \cup {ComputeTextHash(wk[w].misses[i]) :
                                i \in DOMAIN wk[w].misses}
    /\ IF BudgetExceeded(budget, call_est[w])
       THEN /\ call_ret' = [call_ret EXCEPT ![w] = "budget"]
            /\ wk' = [wk EXCEPT ![w] = IdleWorker]
            /\ wk_last' = [wk_last EXCEPT ![w] = "budget_exceeded"]
       ELSE /\ call_ret' = [call_ret EXCEPT ![w] = "returned"]
            /\ wk' = [wk EXCEPT ![w].pc = "upsert",
                                ![w].results = @ \o HashesOf(wk[w].misses),
                                ![w].i = 1]
            /\ UNCHANGED wk_last
    /\ UNCHANGED <<cfgVars, tgVars, chunks, index, queue, enqueued, call_pre,
                   call_est, call_metrics, last_done>>

EmbedGate(w) ==
    /\ wk[w].pc = "gate"
    /\ IF dry_run
       THEN /\ call_ret' = [call_ret EXCEPT ![w] = "returned"]
            /\ wk' = [wk EXCEPT ![w] = IdleWorker]
            /\ wk_last' = [wk_last EXCEPT ![w] = "dry_run"]
       ELSE IF BudgetExceeded(budget, call_est[w])
            THEN /\ call_ret' = [call_ret EXCEPT ![w] = "budget"]
                 /\ wk' = [wk EXCEPT ![w] = IdleWorker]
                 /\ wk_last' = [wk_last EXCEPT ![w] = "budget_exceeded"]
            ELSE /\ wk' = [wk EXCEPT ![w].pc = "batches"]
                 /\ UNCHANGED <<call_ret, wk_last>>
    /\ UNCHANGED <<cfgVars, tgVars, dbVars, queue, enqueued, api_calls,
                   cache_writes, call_pre, call_est, call_metrics, last_done>>

(***************************************************************************)
(* embed_texts lines 146-176: every batch is embedded, the vectors are     *)
(* appended to the results after the cached ones and written to the cache  *)
(* (INSERT ... ON CONFLICT DO NOTHING).                                    *)
(***************************************************************************)
EmbedBatches(w) ==
    /\ wk[w].pc = "batches"
    /\ api_calls' = api_calls + NumBatches(Len(wk[w].misses))
    /\ cache_writes' = cache_writes + Len(wk[w].misses)
    /\ cache' = cache \cup {ComputeTextHash(wk[w].misses[i]) :
                                i \in DOMAIN wk[w].misses}
    /\ wk' = [wk EXCEPT ![w].pc = "upsert",
                        ![w].results = @ \o HashesOf(wk[w].misses),
                        ![w].i = 1]
    /\ call_ret' = [call_ret EXCEPT ![w] = "returned"]
    /\ call_metrics' = [call_metrics EXCEPT
           ![w].embed_calls = @ + NumBatches(Len(wk[w].misses))]
    /\ UNCHANGED <<cfgVars, tgVars, chunks, index, queue, enqueued, wk_last,
                   call_pre, call_est, last_done>>

\* _embed_batch lines 196-222: the third failed attempt re-raises
EmbedFail(w) ==
    /\ wk[w].pc = "batches"
    /\ api_calls' = api_calls + 3
    /\ call_ret' = [call_ret EXCEPT ![w] = "error"]
    /\ wk' = [wk EXCEPT ![w] = IdleWorker]
    /\ wk_last' = [wk_last EXCEPT ![w] = "embed_failed"]
    /\ UNCHANGED <<cfgVars, tgVars, dbVars, queue, enqueued, cache_writes,
                   call_pre, call_est, call_metrics, last_done>>

ChunkRow(obj) ==
    [chunk_id |-> obj.chunk_id, chat_id |-> obj.chat_id,
     message_id |-> obj.message_id, chunk_idx |-> obj.chunk_idx,
     text_hash |-> obj.text_hash, edit_date |-> obj.edit_date]

\* process_message lines 721-754: zip(chunk_objects, embeddings)
VespaDoc(obj, emb) ==
    [id |-> obj.chunk_id, text |-> obj.full_text, edit_date |-> obj.edit_date,
     vector |-> emb]

NumDocs(w) == IF Len(wk[w].objs) <= Len(wk[w].results)
              THEN Len(wk[w].objs) ELSE Len(wk[w].results)

\* process_message lines 757-758: one upsert_chunk per chunk object
UpsertChunk(w) ==
    /\ wk[w].pc = "upsert"
    /\ chunks' = Upsert(chunks, ChunkRow(wk[w].objs[wk[w].i]))
    /\ IF wk[w].i < Len(wk[w].objs)
       THEN wk' = [wk EXCEPT ![w].i = @ + 1]
       ELSE wk' = [wk EXCEPT ![w].i = 1, ![w].pc = "feed"]
    /\ UNCHANGED <<cfgVars, tgVars, index, cache, queue, enqueued, wk_last,
                   ghostVars>>

(***************************************************************************)
(* feed_documents: every document is fed; a feed answered 200/201 within   *)
(* three attempts stores the document (ok), otherwise it is dropped.       *)
(* After the last document process_message returns (lines 763-768).        *)
(***************************************************************************)
FeedDocument(w, ok) ==
    /\ wk[w].pc = "feed"
    /\ index' = IF ok
                THEN FeedPut(index, VespaDoc(wk[w].objs[wk[w].i],
                                             wk[w].results[wk[w].i]))
                ELSE index
    /\ IF wk[w].i < NumDocs(w)
       THEN /\ wk' = [wk EXCEPT ![w].i = @ + 1]
            /\ UNCHANGED <<wk_last, last_done, call_metrics>>
       ELSE /\ wk' = [wk EXCEPT ![w] = IdleWorker]
            /\ wk_last' = [wk_last EXCEPT ![w] = "indexed"]
            /\ call_metrics' = [call_metrics EXCEPT
                   ![w].messages_indexed = @ + 1,
                   ![w].chunks_written = @ + Len(wk[w].objs)]
            /\ last_done' = DictSet(last_done,
                                    <<wk[w].item.chat_id, wk[w].item.message_id>>,
                                    <<wk[w].item.text, wk[w].item.edit_date>>)
    /\ UNCHANGED <<cfgVars, tgVars, chunks, cache, queue, enqueued, api_calls,
                   cache_writes, call_pre, call_est, call_ret>>

WorkerStep(w) ==
    \/ WorkerGet(w)
    \/ ProcessLookup(w)
    \/ EmbedProbe(w)
    \/ EmbedGate(w)
    \/ EmbedBatches(w)
    \/ EmbedFail(w)
    \/ UpsertChunk(w)
    \/ \E ok \in BOOLEAN : FeedDocument(w, ok)

\* work items arriving from any source, processed by the worker pool
ProcStep(max_enqueues, max_edits) ==
    /\ \/ \E k \in MsgKeys, t \in Texts : EditMessage(k, t, max_edits)
       \/ \E k \in MsgKeys : EnqueueMessageData(k, max_enqueues)
       \/ \E w \in Workers : WorkerStep(w)
    /\ UNCHANGED <<chatVars, compVars, searchVars, storeVars, dmVars>>

(***************************************************************************)
(* Part 3.  The chat API: the rate limiter and chat_stream.  A step of     *)
(* chat_stream runs from one yield to the next.                            *)
(***************************************************************************)
Users == {"u1", "u2"}

\* chat_rate_limiter = ChatRateLimiter(..., window_seconds=60), line 124
WindowSeconds == 60

NoRequest == [history |-> FALSE, differs |-> FALSE, results |-> 0, deltas |-> 0]

\* is_allowed lines 105-107: the request times later than now - window
RECURSIVE InsideWindow(_, _)
InsideWindow(times, cutoff) ==
    IF times = <<>> THEN <<>>
    ELSE (IF Head(times) > cutoff THEN <<Head(times)>> ELSE <<>>)
         \o InsideWindow(Tail(times), cutoff)

\* self.requests.get(user_id, [])
UserRequests(user) ==
    IF user \in DOMAIN rl_requests THEN rl_requests[user] ELSE <<>>

\* ChatRateLimiter.is_allowed line 109, negated
RateAllowedLoose(n, max_requests) == n <= max_requests

RateAllowed(n, max_requests) == n < max_requests

\* the first component of the pair is_allowed returns
IsAllowed(user) ==
    RateAllowed(Len(InsideWindow(UserRequests(user), now - WindowSeconds)), rl_limit)

\* is_allowed lines 109-119: an allowed request is recorded with the cleaned
\* list, a refused one leaves self.requests as it is
RecordRequest(user) ==
    IF IsAllowed(user)
    THEN /\ rl_requests' =
               DictSet(rl_requests, user,
                       Append(InsideWindow(UserRequests(user), now - WindowSeconds), now))
         /\ accepted' = [accepted EXCEPT ![user] = Append(@, now)]
    ELSE UNCHANGED <<rl_requests, accepted>>

\* yield f"data: {ChatStreamChunk(type=...)}": the frame joins the stream
EmitContent(ev, type) == Append(ev, "content")

Emit(ev, type) == Append(ev, type)

InitChat(limits) ==
    /\ rl_limit \in limits
    /\ rl_requests = EmptyDict
    /\ now = 0
    /\ accepted = [u \in Users |-> <<>>]
    /\ cs_pc = "idle"
    /\ cs_in = NoRequest
    /\ events = <<>>
    /\ chat_requests = 0
    /\ cs_failed = {}

\* time.time() advances
TimePasses ==
    /\ now < MaxNow
    /\ now' = now + TickSeconds
    /\ UNCHANGED <<rl_limit, rl_requests, accepted, csVars>>

\* a call of is_allowed on its own
RateRequest(user) ==
    /\ IsAllowed(user)
    /\ RecordRequest(user)
    /\ UNCHANGED <<rl_limit, now, csVars>>

(***************************************************************************)
(* chat_stream lines 322-330 and is_allowed: the rate limiter refuses the  *)
(* request with one error chunk, or records it.  The request says whether  *)
(* it carries a history; whether the reformulated query differs, how many  *)
(* results the search finds and how many deltas with content the provider  *)
(* streams are answers of the services.                                    *)
(***************************************************************************)
ChatRequest(user, history, differs, results, deltas) ==
    /\ cs_pc \in {"idle", "done", "aborted"}
    /\ chat_requests < MaxChatRequests
    /\ chat_requests' = chat_requests + 1
    /\ cs_in' = [history |-> history, differs |-> differs, results |-> results,
                 deltas |-> deltas]
    /\ RecordRequest(user)
    /\ IF IsAllowed(user)
       THEN /\ events' = <<>>
            /\ cs_pc' = "begin"
            /\ cs_failed' = {}
       ELSE /\ events' = Emit(<<>>, "error")
            /\ cs_pc' = "done"
            /\ cs_failed' = {"raised"}
    /\ UNCHANGED <<rl_limit, now>>

\* the except branch, lines 572-575: one error chunk, the stream is over
ChatErrorGoesOn ==
    /\ events' = Emit(events, "error")
    /\ UNCHANGED cs_pc
    /\ cs_failed' = cs_failed \cup {"raised"}

ChatError ==
    /\ events' = Emit(events, "error")
    /\ cs_pc' = "done"
    /\ cs_failed' = cs_failed \cup {"raised"}

\* lines 333-338 (with history) or lines 333-353 (without); _resolve_model_id
\* may raise
ChatBegin(fails) ==
    /\ cs_pc = "begin"
    /\ IF fails THEN ChatError
       ELSE /\ UNCHANGED cs_failed
            /\ IF cs_in.history
               THEN /\ events' = Emit(events, "reformulate")
                    /\ cs_pc' = "reformulating"
               ELSE /\ events' = Emit(events, "search")
                    /\ cs_pc' = "searching"
    /\ UNCHANGED <<rlVars, cs_in, chat_requests>>

\* lines 340-353: reformulate_query returns; when its provider call fails it
\* returns the question (lines 272-274).  A second reformulate chunk when
\* the query changed, else the first search chunk
ChatReformulated(fails) ==
    /\ cs_pc = "reformulating"
    /\ cs_failed' = IF fails THEN cs_failed \cup {"absorbed"} ELSE cs_failed
    /\ IF cs_in.differs /\ ~fails
       THEN /\ events' = Emit(events, "reformulate")
            /\ cs_pc' = "enhanced"
       ELSE /\ events' = Emit(events, "search")
            /\ cs_pc' = "searching"
    /\ UNCHANGED <<rlVars, cs_in, chat_requests>>

\* line 353 after the second reformulate chunk
ChatSearchStart ==
    /\ cs_pc = "enhanced"
    /\ events' = Emit(events, "search")
    /\ cs_pc' = "searching"
    /\ UNCHANGED <<rlVars, cs_in, chat_requests, cs_failed>>

\* lines 355-364: the search answers and its count is reported.  Getting
\* the search client raises ("raise"), or the search engine fails and search
\* returns no results (search.py lines 359-363, "empty"); a failed query
\* embedding makes the search a BM25-only one ("ok")
ChatSearched(outcome) ==
    /\ cs_pc = "searching"
    /\ IF outcome = "raise" THEN ChatError /\ UNCHANGED cs_in
       ELSE /\ events' = Emit(events, "search")
            /\ cs_pc' = "found"
            /\ IF outcome = "empty"
               THEN /\ cs_in' = [cs_in EXCEPT !.results = 0]
                    /\ cs_failed' = cs_failed \cup {"absorbed"}
               ELSE UNCHANGED <<cs_in, cs_failed>>
    /\ UNCHANGED <<rlVars, chat_requests>>

\* lines 366-372 (no results) or lines 387-418 (context assembled)
ChatFound(fails) ==
    /\ cs_pc = "found"
    /\ IF cs_in.results = 0
       THEN /\ events' = Emit(events, "content")
            /\ cs_pc' = "nodata"
            /\ UNCHANGED cs_failed
       ELSE IF fails THEN ChatError
            ELSE /\ events' = Emit(events, "start")
                 /\ cs_pc' = "streaming"
                 /\ UNCHANGED cs_failed
    /\ UNCHANGED <<rlVars, cs_in, chat_requests>>

\* lines 374-386
ChatNoDataEnd ==
    /\ cs_pc = "nodata"
    /\ events' = Emit(events, "end")
    /\ cs_pc' = "done"
    /\ UNCHANGED <<rlVars, cs_in, chat_requests, cs_failed>>

\* lines 429-557: the next delta with content, or the citations when the
\* provider's stream is over; deltas without content yield nothing
ChatStream(fails) ==
    /\ cs_pc = "streaming"
    /\ IF fails THEN ChatError /\ UNCHANGED cs_in
       ELSE IF cs_in.deltas > 0
            THEN /\ events' = Emit(events, "content")
                 /\ cs_in' = [cs_in EXCEPT !.deltas = @ - 1]
                 /\ UNCHANGED <<cs_pc, cs_failed>>
            ELSE /\ events' = Emit(events, "citations")
                 /\ cs_pc' = "cited"
                 /\ UNCHANGED <<cs_in, cs_failed>>
    /\ UNCHANGED <<rlVars, chat_requests>>

\* lines 559-570
ChatEnd ==
    /\ cs_pc = "cited"
    /\ events' = Emit(events, "end")
    /\ cs_pc' = "done"
    /\ UNCHANGED <<rlVars, cs_in, chat_requests, cs_failed>>

\* the client disconnects: the generator is closed at the yield it waits in
ChatDisconnect ==
    /\ cs_pc \notin {"idle", "done", "aborted"}
    /\ cs_pc' = "aborted"
    /\ UNCHANGED <<rlVars, cs_in, events, chat_requests, cs_failed>>

SearchOutcomes == {"ok", "raise", "empty"}

\* the /chat requests of one user, one after the other
NextChat ==
    /\ \/ TimePasses
       \/ \E h, d \in BOOLEAN, n \in 0..MaxResults, m \in 0..MaxDeltas :
              ChatRequest("u1", h, d, n, m)
       \/ \E f \in BOOLEAN : ChatBegin(f)
       \/ \E f \in BOOLEAN : ChatReformulated(f)
       \/ ChatSearchStart
       \/ \E o \in SearchOutcomes : ChatSearched(o)
       \/ \E f \in BOOLEAN : ChatFound(f)
       \/ ChatNoDataEnd
       \/ \E f \in BOOLEAN : ChatStream(f)
       \/ ChatEnd
       \/ ChatDisconnect
    /\ UNCHANGED <<storeVars, ixVars, dmVars, searchVars, compVars>>

\* is_allowed called for any user at any time
NextRate ==
    /\ \/ TimePasses
       \/ \E u \in Users : RateRequest(u)
    /\ UNCHANGED <<storeVars, ixVars, dmVars, searchVars, compVars>>

(***************************************************************************)
(* The search API: VespaSearchClient (api/app/search.py).  A seed hit is a *)
(* record of its chat, message id, message date in ms (NoDate for None)    *)
(* and score; relevance is what the reranker makes of its text: the number *)
(* of query tokens in it (stub) or the provider's relevance score.         *)
(***************************************************************************)
\* message_date_ms is None
NoDate == -1

SeedChats == {"c1", "c2"}

SeedIds == {1, 2, 4}

SeedDates == {NoDate, 1000, 2000}

SeedScores == {1, 2}

\* the gap settings: 0 switches a rule off
GapSettings == {0, 1}

SeedHits(chats, ids, dates, scores, relevances) ==
    [chat_id : chats, message_id : ids, message_date_ms : dates, score : scores,
     relevance : relevances]

SeqsUpTo(S, n) == UNION {[1..k -> S] : k \in 0..n}

Max(a, b) == IF a >= b THEN a ELSE b

Min(a, b) == IF a <= b THEN a ELSE b

Abs(x) == IF x < 0 THEN -x ELSE x

\* `x or 0` of an Optional[int]
OrZero(x) == IF x = NoDate THEN 0 ELSE x

\* comparison of the two-element sort keys (tuples compare element by element)
KeyGE(a, b) == a[1] > b[1] \/ (a[1] = b[1] /\ a[2] >= b[2])

\* sorted(..., reverse=True) and list.sort(reverse=True) over <<key, item>>
\* pairs: descending by key, items of equal key keep their original order
RECURSIVE InsertDesc(_, _)
InsertDesc(x, sorted) ==
    IF sorted = <<>> THEN <<x>>
    ELSE IF KeyGE(Head(sorted)[1], x[1])
         THEN <<Head(sorted)>> \o InsertDesc(x, Tail(sorted))
         ELSE <<x>> \o sorted

RECURSIVE SortDesc(_)
SortDesc(pairs) ==
    IF pairs = <<>> THEN <<>>
    ELSE InsertDesc(pairs[Len(pairs)], SortDesc(SubSeq(pairs, 1, Len(pairs) - 1)))

Reverse(seq) == [i \in DOMAIN seq |-> seq[Len(seq) + 1 - i]]

\* the sort key of _filter_seeds, lines 501-504
SeedKey(seed) == <<seed.score, OrZero(seed.message_date_ms)>>

SeedPairs(seeds) == [i \in DOMAIN seeds |-> <<SeedKey(seeds[i]), seeds[i]>>]

SortedSeedsAscending(seeds) ==
    LET sorted == Reverse(SortDesc(SeedPairs(seeds)))
    IN  [i \in DOMAIN sorted |-> sorted[i][2]]

\* sorted_seeds, lines 499-506
SortedSeeds(seeds) ==
    LET sorted == SortDesc(SeedPairs(seeds))
    IN  [i \in DOMAIN sorted |-> sorted[i][2]]

\* id_gap and time_gap_ms, lines 496-497
IdGap(message_gap) == Max(0, message_gap)

TimeGapMs(time_gap_seconds) == Max(0, time_gap_seconds) * 1000

\* the two tests of the inner loop, lines 512-523
TooClose(seed, existing, id_gap, time_gap_ms) ==
    \/ /\ id_gap # 0
       /\ Abs(seed.message_id - existing.message_id) <= id_gap
    \/ /\ time_gap_ms # 0
       /\ seed.message_date_ms # NoDate
       /\ existing.message_date_ms # NoDate
       /\ Abs(seed.message_date_ms - existing.message_date_ms) <= time_gap_ms

\* the loop over sorted_seeds, lines 509-528
RECURSIVE Select(_, _, _, _)
Select(sorted, selected, id_gap, time_gap_ms) ==
    IF sorted = <<>> THEN selected
    ELSE LET seed == Head(sorted)
             too_close == \E i \in DOMAIN selected :
                              TooClose(seed, selected[i], id_gap, time_gap_ms)
         IN  Select(Tail(sorted),
                    IF too_close THEN selected ELSE Append(selected, seed),
                    id_gap, time_gap_ms)

\* _filter_seeds
FilterSeeds(seeds, message_gap, time_gap_seconds) ==
    IF seeds = <<>> THEN <<>>
    ELSE LET sorted_seeds == SortedSeeds(seeds)
             selected == Select(sorted_seeds, <<>>, IdGap(message_gap),
                                TimeGapMs(time_gap_seconds))
         IN  IF selected # <<>> THEN selected ELSE SubSeq(sorted_seeds, 1, 1)

NoSettings == [message_gap |-> 0, time_gap_seconds |-> 0]

NoSearchRequest == [limit |-> 0, expansion_level |-> 0]

NoBudget == [final_limit |-> 0, seed_limit |-> 0, rerank_cap |-> 0]

NoAnswer == [kind |-> "none", items |-> <<>>]

\* _assemble_candidate returns None
NoCandidate == [none |-> TRUE, text |-> <<>>, start_id |-> 0, end_id |-> 0,
                message_count |-> 0]

NoSeed == [message_id |-> 0, text |-> <<>>]

\* _assemble_candidate is not called
AssembleIdle ==
    /\ as_set = [max_messages |-> 0, token_limit |-> 0]
    /\ as_seed = NoSeed
    /\ as_msgs = <<>>
    /\ as_pc = "idle"
    /\ as_out = NoCandidate

\* no search call is made
SearchIdle ==
    /\ sr_set = NoSettings
    /\ sr_req = NoSearchRequest
    /\ sr_hits = <<>>
    /\ sr_pc = "idle"
    /\ sr_seeds = <<>>
    /\ sr_expanded = <<>>
    /\ sr_cands = <<>>
    /\ sr_out = <<>>
    /\ sr_budget = NoBudget
    /\ sr_answer = NoAnswer
    /\ sr_failed = {}

InitSearchIdle == SearchIdle /\ AssembleIdle

\* _filter_seeds is about to be called on any seed list, under any gap settings
InitDedupe ==
    /\ sr_set \in [message_gap : GapSettings, time_gap_seconds : GapSettings]
    /\ sr_req = NoSearchRequest
    /\ sr_hits \in SeqsUpTo(SeedHits(SeedChats, SeedIds, SeedDates, SeedScores, {0}),
                            MaxSeeds)
    /\ sr_pc = "seeds"
    /\ sr_seeds = <<>>
    /\ sr_expanded = <<>>
    /\ sr_cands = <<>>
    /\ sr_out = <<>>
    /\ sr_budget = NoBudget
    /\ sr_answer = NoAnswer
    /\ sr_failed = {}
    /\ AssembleIdle

\* filtered_seeds = self._filter_seeds(seed_hits), line 372
Dedupe ==
    /\ sr_pc = "seeds"
    /\ sr_seeds' = FilterSeeds(sr_hits, sr_set.message_gap, sr_set.time_gap_seconds)
    /\ sr_pc' = "filtered"
    /\ UNCHANGED <<sr_set, sr_req, sr_hits, sr_expanded, sr_cands, sr_out, sr_budget,
                   sr_answer, sr_failed>>

NextDedupe == Dedupe /\ UNCHANGED <<storeVars, ixVars, dmVars, chatVars, compVars, asVars>>

\* rerank_score is None
NoScore == -1

RerankModes == {"off", "stub", "api"}

ExpandOutcomes == {"ok", "raise", "none"}

FirstN(seq, n) == SubSeq(seq, 1, Min(n, Len(seq)))

\* SearchRequest._clamp_expansion, lines 29-34
ClampExpansion(value, max_level) == IF value < 0 THEN 0 ELSE Min(value, max_level)

\* expansion_level, lines 330-332
ExpansionLevel(req, set) == Max(0, Min(req.expansion_level, set.max_level))

\* base_limit, line 334
BaseLimit(req, set) == Max(1, Min(req.limit, set.context_max_return))

FinalLimitUnclamped(req, set) ==
    IF ExpansionLevel(req, set) > 0 /\ req.limit = set.default_limit
    THEN BaseLimit(req, set) + ExpansionLevel(req, set) * set.result_step
    ELSE BaseLimit(req, set)

\* final_limit, lines 335-341
FinalLimit(req, set) ==
    IF ExpansionLevel(req, set) > 0 /\ req.limit = set.default_limit
    THEN Min(BaseLimit(req, set) + ExpansionLevel(req, set) * set.result_step,
             set.context_max_return)
    ELSE BaseLimit(req, set)

\* seed_limit, lines 343-347
SeedLimit(req, set) ==
    Max(FinalLimit(req, set),
        set.seed_limit + ExpansionLevel(req, set) * set.seed_step)

\* rerank_cap, lines 418-422
RerankCap(req, set) ==
    Max(FinalLimit(req, set),
        set.rerank_limit + ExpansionLevel(req, set) * set.rerank_step)

\* _coerce_epoch_seconds, lines 867-871
EpochSeconds(ms) == IF ms = NoDate THEN NoDate ELSE ms \div 1000

\* the SearchResult built by _assemble_candidate, lines 770-791
BuildCandidate(seed) ==
    [chat_id |-> seed.chat_id, message_id |-> seed.message_id,
     message_date |-> EpochSeconds(seed.message_date_ms),
     seed_score |-> seed.score, retrieval_score |-> seed.score,
     score |-> seed.score, rerank_score |-> NoScore,
     relevance |-> seed.relevance]

GatheredFirstFailureEnds(seeds, outcomes) ==
    LET ok == {i \in DOMAIN seeds : \A j \in 1..i : outcomes[j] = "ok"}
    IN  [i \in 1..Cardinality(ok) |-> BuildCandidate(seeds[i])]

\* the loop over zip(filtered_seeds, expanded), lines 384-396: exceptions and
\* None results are skipped
RECURSIVE Gathered(_, _)
Gathered(seeds, outcomes) ==
    IF seeds = <<>> THEN <<>>
    ELSE (IF Head(outcomes) = "ok" THEN <<BuildCandidate(Head(seeds))>> ELSE <<>>)
         \o Gathered(Tail(seeds), Tail(outcomes))

CandKeyScoreFirst(c) == <<c.seed_score, OrZero(c.message_date)>>

\* the sort key of candidates.sort, lines 408-411
CandKey(c) == <<OrZero(c.message_date), c.seed_score>>

\* candidates.sort(..., reverse=True), lines 407-413
SortedCandidates(cands) ==
    LET sorted == SortDesc([i \in DOMAIN cands |-> <<CandKey(cands[i]), cands[i]>>])
    IN  [i \in DOMAIN sorted |-> sorted[i][2]]

StubKeyRetrievalFirst(c) == <<c.retrieval_score, c.relevance>>

\* the sort key of _rerank_stub, lines 224-230
StubKey(c) == <<c.relevance, c.retrieval_score>>

\* lines 239-241 of _rerank_stub
StubScored(c) ==
    IF c.relevance > 0
    THEN [c EXCEPT !.rerank_score = c.relevance, !.score = c.relevance]
    ELSE c

\* _rerank_stub: every result is taken in sorted order until top_n are taken
RerankStub(results, top_n) ==
    LET scored == SortDesc([i \in DOMAIN results |-> <<StubKey(results[i]), results[i]>>])
    IN  FirstN([i \in DOMAIN scored |-> StubScored(scored[i][2])], top_n)

\* lines 197-199 of rerank
ApiScored(c) == [c EXCEPT !.rerank_score = c.relevance, !.score = c.relevance]

RECURSIVE Unseen(_, _, _)
Unseen(results, seen, idx) ==
    IF idx > Len(results) THEN <<>>
    ELSE (IF idx \in seen THEN <<>> ELSE <<results[idx]>>)
         \o Unseen(results, seen, idx + 1)

\* rerank over the provider's answer, lines 181-212: the items in the
\* order of the answer, then the results the answer left out
RerankApi(results, top_n, items) ==
    LET valid == SelectSeq(items, LAMBDA idx : idx <= Len(results))
        taken == FirstN(valid, top_n)
        reranked == [i \in DOMAIN taken |-> ApiScored(results[taken[i]])]
        seen == {taken[i] : i \in DOMAIN taken}
    IN  FirstN(reranked \o Unseen(results, seen, 1), top_n)

\* the answers of the rerank provider to top_k documents: at most top_k
\* distinct indices, most relevant first (documents of equal relevance in
\* any order)
ApiAnswers(results, top_k) ==
    {items \in SeqsUpTo(DOMAIN results, top_k) :
        /\ \A i, j \in DOMAIN items : i < j =>
              /\ items[i] # items[j]
              /\ results[items[i]].relevance >= results[items[j]].relevance
        /\ \A i \in DOMAIN items : \A k \in DOMAIN results :
              (\A j \in DOMAIN items : items[j] # k) =>
                  results[items[i]].relevance >= results[k].relevance}

\* VoyageReranker.rerank
Rerank(mode, results, top_n, answer) ==
    IF mode = "off" \/ results = <<>> THEN FirstN(results, top_n)
    ELSE IF mode = "stub" THEN RerankStub(results, top_n)
    ELSE IF answer.kind = "fail" THEN FirstN(results, top_n)
    ELSE RerankApi(results, top_n, answer.items)

RerankAnswers(mode, results, top_n) ==
    IF mode = "stub" THEN {[kind |-> "stub", items |-> <<>>]}
    ELSE {[kind |-> "fail", items |-> <<>>]}
         \cup {[kind |-> "items", items |-> a] :
                  a \in ApiAnswers(results, Min(top_n, Len(results)))}

\* a search call is about to be made
InitSearchCall(hits, sets, reqs) ==
    /\ sr_set \in sets
    /\ sr_req \in {[r EXCEPT !.expansion_level = ClampExpansion(@, sr_set.max_level)] :
                      r \in reqs}
    /\ sr_hits \in hits
    /\ sr_pc = "call"
    /\ sr_seeds = <<>>
    /\ sr_expanded = <<>>
    /\ sr_cands = <<>>
    /\ sr_out = <<>>
    /\ sr_budget = NoBudget
    /\ sr_answer = NoAnswer
    /\ sr_failed = {}
    /\ AssembleIdle

SearchReturn(results) ==
    /\ sr_out' = results
    /\ sr_pc' = "done"

\* lines 326-353: a blank query returns at once; the budgets are computed and
\* the query is built: when the query embedding fails, _build_query falls
\* back to a BM25-only query (lines 970-983, "bm25")
SearchBegin(kind) ==
    /\ sr_pc = "call"
    /\ IF kind = "blank"
       THEN SearchReturn(<<>>) /\ UNCHANGED <<sr_budget, sr_failed>>
       ELSE /\ sr_budget' = [final_limit |-> FinalLimit(sr_req, sr_set),
                             seed_limit |-> SeedLimit(sr_req, sr_set),
                             rerank_cap |-> 0]
            /\ sr_pc' = "query"
            /\ sr_failed' = IF kind = "bm25" THEN {"embed"} ELSE {}
            /\ UNCHANGED sr_out
    /\ UNCHANGED <<sr_set, sr_req, sr_hits, sr_seeds, sr_expanded, sr_cands, sr_answer>>

SearchVespaRaises(ok) ==
    /\ sr_pc = "query"
    /\ IF ~ok
       THEN /\ sr_pc' = "raised"
            /\ sr_failed' = sr_failed \cup {"seed"}
            /\ UNCHANGED <<sr_seeds, sr_out>>
       ELSE LET seed_hits == FirstN(sr_hits, sr_budget.seed_limit)
                filtered_seeds == FilterSeeds(seed_hits, sr_set.message_gap,
                                              sr_set.time_gap_seconds)
            IN  /\ sr_seeds' = filtered_seeds
                /\ UNCHANGED sr_failed
                /\ IF filtered_seeds = <<>>
                   THEN SearchReturn(<<>>)
                   ELSE sr_pc' = "expand" /\ UNCHANGED sr_out
    /\ UNCHANGED <<sr_set, sr_req, sr_hits, sr_expanded, sr_cands, sr_budget, sr_answer>>

\* lines 355-379: Vespa answers with at most seed_limit hits (the "hits"
\* field of the query, line 1003) or fails; the seeds are parsed and filtered
SearchVespa(ok) ==
    /\ sr_pc = "query"
    /\ IF ~ok
       THEN /\ SearchReturn(<<>>)
            /\ sr_failed' = sr_failed \cup {"seed"}
            /\ UNCHANGED sr_seeds
       ELSE LET seed_hits == FirstN(sr_hits, sr_budget.seed_limit)
                filtered_seeds == FilterSeeds(seed_hits, sr_set.message_gap,
                                              sr_set.time_gap_seconds)
            IN  /\ sr_seeds' = filtered_seeds
                /\ UNCHANGED sr_failed
                /\ IF filtered_seeds = <<>>
                   THEN SearchReturn(<<>>)
                   ELSE sr_pc' = "expand" /\ UNCHANGED sr_out
    /\ UNCHANGED <<sr_set, sr_req, sr_hits, sr_expanded, sr_cands, sr_budget, sr_answer>>

\* lines 381-435: the gather over _build_candidate ends, the candidates are
\* collected and sorted; without a reranker the call returns
SearchExpanded(outcomes) ==
    /\ sr_pc = "expand"
    /\ sr_expanded' = outcomes
    /\ LET candidates == Gathered(sr_seeds, outcomes)
       IN  IF candidates = <<>>
           THEN SearchReturn(<<>>) /\ UNCHANGED <<sr_cands, sr_budget>>
           ELSE /\ sr_cands' = SortedCandidates(candidates)
                /\ IF sr_set.rerank = "off"
                   THEN /\ SearchReturn(FirstN(sr_cands', sr_budget.final_limit))
                        /\ UNCHANGED sr_budget
                   ELSE /\ sr_budget' = [sr_budget EXCEPT
                                            !.rerank_cap = RerankCap(sr_req, sr_set)]
                        /\ sr_pc' = "rerank"
                        /\ UNCHANGED sr_out
    /\ UNCHANGED <<sr_set, sr_req, sr_hits, sr_seeds, sr_answer, sr_failed>>

\* lines 423-451: the reranker answers
SearchReranked(answer) ==
    /\ sr_pc = "rerank"
    /\ sr_answer' = answer
    /\ LET limited_candidates == FirstN(sr_cands, sr_budget.rerank_cap)
           rerank_results == Rerank(sr_set.rerank, limited_candidates,
                                    sr_budget.final_limit, answer)
       IN  SearchReturn(FirstN(rerank_results, sr_budget.final_limit))
    /\ UNCHANGED <<sr_set, sr_req, sr_hits, sr_seeds, sr_expanded, sr_cands, sr_budget,
                   sr_failed>>

SearchUpToSort ==
    \/ \E kind \in {"ok", "blank", "bm25"} : SearchBegin(kind)
    \/ \E ok \in BOOLEAN : SearchVespa(ok)
    \/ \E outcomes \in [DOMAIN sr_seeds -> ExpandOutcomes] : SearchExpanded(outcomes)

\* search without a reranker
NextSearch ==
    SearchUpToSort /\ UNCHANGED <<storeVars, ixVars, dmVars, chatVars, compVars, asVars>>

\* search with a reranker
NextRerank ==
    /\ \/ SearchUpToSort
       \/ \E answer \in RerankAnswers(sr_set.rerank,
                                      FirstN(sr_cands, sr_budget.rerank_cap),
                                      sr_budget.final_limit) : SearchReranked(answer)
    /\ UNCHANGED <<storeVars, ixVars, dmVars, chatVars, compVars, asVars>>

(***************************************************************************)
(* _assemble_candidate.  A text is a tuple of characters; a message record *)
(* is its message id and text.  The dates of the records play no part:     *)
(* after the dedupe by message id the sort by (message_id, date) is a sort *)
(* by message id.                                                          *)
(***************************************************************************)
\* texts as _safe_text leaves them: empty or without blanks at the ends
MessageTexts == {<<>>, <<"a">>, <<"b", "b">>}

MessageIds == {1, 2, 3}

\* str.strip()
RECURSIVE StripLeft(_)
StripLeft(text) ==
    IF text # <<>> /\ Head(text) = " " THEN StripLeft(Tail(text)) ELSE text

RECURSIVE StripRight(_)
StripRight(text) ==
    IF text # <<>> /\ text[Len(text)] = " "
    THEN StripRight(SubSeq(text, 1, Len(text) - 1))
    ELSE text

Strip(text) == StripRight(StripLeft(text))

\* _format_message_line
FormatMessageLine(text) == Strip(text)

\* "\n".join(lines)
RECURSIVE Join(_)
Join(lines) ==
    IF lines = <<>> THEN <<>>
    ELSE IF Len(lines) = 1 THEN lines[1]
    ELSE lines[1] \o <<"\n">> \o Join(Tail(lines))

\* the dedup dict, lines 656-660: of the records of one message the first
\* is kept, unless it has no text and a later one has
RECURSIVE Dedup(_, _)
Dedup(messages, dedup) ==
    IF messages = <<>> THEN dedup
    ELSE LET msg == Head(messages)
             put == \/ msg.message_id \notin DOMAIN dedup
                    \/ dedup[msg.message_id] = <<>> /\ msg.text # <<>>
         IN  Dedup(Tail(messages),
                   IF put THEN DictSet(dedup, msg.message_id, msg.text) ELSE dedup)

\* lines 662-678: a record of the seed is made up when no record has its id
WithSeed(dedup, seed) ==
    IF seed.message_id \in DOMAIN dedup THEN dedup
    ELSE DictSet(dedup, seed.message_id, seed.text)

\* sorted(dedup.values(), key=message_id), lines 680-682
RECURSIVE Ordered(_)
Ordered(dedup) ==
    IF DOMAIN dedup = {} THEN <<>>
    ELSE LET least == CHOOSE m \in DOMAIN dedup : \A n \in DOMAIN dedup : m <= n
         IN  <<[message_id |-> least, text |-> dedup[least]]>>
             \o Ordered([m \in DOMAIN dedup \ {least} |-> dedup[m]])

\* seed_index, lines 690-697 (counted from 0)
RECURSIVE IndexOfSeed(_, _, _)
IndexOfSeed(filtered, seed_id, idx) ==
    IF idx >= Len(filtered) THEN Len(filtered) \div 2
    ELSE IF filtered[idx + 1].message_id = seed_id THEN idx
    ELSE IndexOfSeed(filtered, seed_id, idx + 1)

\* lines 688-701: at most max_messages records around the seed
Window(filtered, seed_id, max_messages) ==
    IF Len(filtered) > max_messages
    THEN LET seed_index == IndexOfSeed(filtered, seed_id, 0)
             half == max_messages \div 2
             start == Max(0, seed_index - half)
             end == start + max_messages
         IN  SubSeq(filtered, start + 1, Min(end, Len(filtered)))
    ELSE filtered

TextBlock(filtered) ==
    Join([i \in DOMAIN filtered |-> FormatMessageLine(filtered[i].text)])

RemoveAt(seq, i) == SubSeq(seq, 1, i - 1) \o SubSeq(seq, i + 1, Len(seq))

DropIndexFirst(filtered, seed_id) == 0

\* drop_index, lines 708-710 (counted from 0)
DropIndex(filtered, seed_id) ==
    IF filtered[1].message_id = seed_id /\ Len(filtered) > 1 THEN 1 ELSE 0

\* the loop of lines 707-713
RECURSIVE Shrink(_, _, _)
Shrink(filtered, seed_id, max_chars) ==
    IF Len(TextBlock(filtered)) > max_chars /\ Len(filtered) > 1
    THEN Shrink(RemoveAt(filtered, DropIndex(filtered, seed_id) + 1), seed_id, max_chars)
    ELSE filtered

\* _assemble_candidate, as far as text, span and message_count go
AssembleCandidate(seed, messages, set) ==
    IF messages = <<>> THEN NoCandidate
    ELSE LET ordered == Ordered(WithSeed(Dedup(messages, EmptyDict), seed))
             filtered == SelectSeq(ordered, LAMBDA msg : msg.text # <<>>)
             max_messages == Max(1, set.max_messages)
             max_chars == Max(1, set.token_limit) * 4
         IN  IF filtered = <<>> THEN NoCandidate
             ELSE LET kept == Shrink(Window(filtered, seed.message_id, max_messages),
                                     seed.message_id, max_chars)
                      text_block == TextBlock(kept)
                  IN  IF Strip(text_block) = <<>> THEN NoCandidate
                      ELSE [none |-> FALSE, text |-> text_block,
                            start_id |-> kept[1].message_id,
                            end_id |-> kept[Len(kept)].message_id,
                            message_count |-> Len(kept)]

\* the neighbours come ordered by message id (order by message_id asc, line
\* 567; _merge_messages sorts), and there is at least one (line 538)
SortedById(messages) ==
    \A i, j \in DOMAIN messages : i < j => messages[i].message_id <= messages[j].message_id

\* _assemble_candidate is about to be called on any seed and neighbours
InitAssemble ==
    /\ as_set \in [max_messages : {1, 2}, token_limit : {1, 2}]
    /\ as_seed \in [message_id : {1, 2}, text : MessageTexts]
    /\ as_msgs \in {m \in SeqsUpTo([message_id : MessageIds, text : MessageTexts], MaxMessages) :
                       m # <<>> /\ SortedById(m)}
    /\ as_pc = "call"
    /\ as_out = NoCandidate

\* candidate = self._assemble_candidate(seed, neighbors), line 540
Assemble ==
    /\ as_pc = "call"
    /\ as_out' = AssembleCandidate(as_seed, as_msgs, as_set)
    /\ as_pc' = "done"
    /\ UNCHANGED <<as_set, as_seed, as_msgs>>

\* _build_candidate lines 536-541 is about to be called: the neighbour
\* queries may have found nothing
InitBuild ==
    /\ as_set \in [max_messages : {1, 2}, token_limit : {1, 2}]
    /\ as_seed \in [message_id : {1, 2}, text : MessageTexts]
    /\ as_msgs \in {m \in SeqsUpTo([message_id : MessageIds, text : MessageTexts], MaxMessages) :
                       SortedById(m)}
    /\ as_pc = "build"
    /\ as_out = NoCandidate

\* _build_candidate lines 537-541, after _fetch_neighbors returned as_msgs
BuildCandidateCall ==
    /\ as_pc = "build"
    /\ as_out' = IF as_msgs = <<>> THEN NoCandidate
                 ELSE AssembleCandidate(as_seed, as_msgs, as_set)
    /\ as_pc' = "done"
    /\ UNCHANGED <<as_set, as_seed, as_msgs>>

NextBuild ==
    BuildCandidateCall /\ UNCHANGED <<storeVars, ixVars, dmVars, chatVars, compVars, srVars>>

NextAssemble == Assemble /\ UNCHANGED <<storeVars, ixVars, dmVars, chatVars, compVars, srVars>>

(***************************************************************************)
(* Part 4.  The daemon: look-back, hourly sweep, backfill, restart.        *)
(* The history of the target chat is scanned one message per step; every   *)
(* step ends at an await of the message iterator.                          *)
(***************************************************************************)
Callers == {"startup", "reconnect"}

\* the target chat and the id of its newest message
TargetChat == CHOOSE c \in IxChats : TRUE

LastMsgId == CHOOSE m \in MsgIds : \A n \in MsgIds : n <= m

\* daemon_lookback_minutes and lookback_message_limit (main.py lines 56-61)
LookbackMinutes == 5

LookbackMessageLimit == 250

IdleScan == [pc |-> "idle", cur |-> 0, queued |-> 0]

\* _scan_chat_window lines 455-468: a message inside the window (ids from
\* `from` on) that has text is queued
ScanQueues(k, from) == k[2] >= from /\ tg[k].text # ""

\* self._lookback_lock.locked()
LookbackLocked(holder) == holder # ""

\* `async with self._lookback_lock` entered by caller c while it is free
AcquireNothing(holder, c) == holder

Acquire(holder, c) == c

(***************************************************************************)
(* _run_recent_lookback lines 495-503.  The call returns when the window   *)
(* is empty or the lock is held; otherwise it takes the lock, which is     *)
(* free, without suspending in between.                                    *)
(***************************************************************************)
LookbackEnter(c, max_calls) ==
    /\ lb[c].pc = "idle"
    /\ lb_calls < max_calls
    /\ lb_calls' = lb_calls + 1
    /\ IF LookbackMinutes <= 0 \/ IxChats = {}
       THEN UNCHANGED <<lb_lock, lb>>
       ELSE IF LookbackLocked(lb_lock)
            THEN UNCHANGED <<lb_lock, lb>>
            ELSE /\ lb_lock' = Acquire(lb_lock, c)
                 /\ lb' = [lb EXCEPT ![c] = [pc |-> "scan", cur |-> 1, queued |-> 0]]
    /\ UNCHANGED ixVars

(***************************************************************************)
(* _scan_recent_history / _scan_chat_window inside the look-back: the next *)
(* message of the window is queued; after the last one the call waits for  *)
(* the queue when it queued something, else leaves the lock and returns.   *)
(***************************************************************************)
LookbackScan(c) ==
    /\ lb[c].pc = "scan"
    /\ LET k == <<TargetChat, lb[c].cur>>
       IN IF lb[c].cur <= LastMsgId /\ lb[c].queued < LookbackMessageLimit
          THEN /\ IF ScanQueues(k, lb_from)
                  THEN /\ queue' = Append(queue, MsgData(k))
                       /\ lb' = [lb EXCEPT ![c].cur = @ + 1, ![c].queued = @ + 1]
                  ELSE /\ lb' = [lb EXCEPT ![c].cur = @ + 1]
                       /\ UNCHANGED queue
               /\ UNCHANGED lb_lock
          ELSE IF lb[c].queued > 0
               THEN /\ lb' = [lb EXCEPT ![c].pc = "join"]
                    /\ UNCHANGED <<queue, lb_lock>>
               ELSE /\ lb' = [lb EXCEPT ![c] = IdleScan]
                    /\ lb_lock' = ""
                    /\ UNCHANGED queue
    /\ UNCHANGED <<lb_calls, cfgVars, tgVars, dbVars, enqueued, wkVars, ghostVars>>

\* message_queue.join() returns when every queued item is done (line 519)
QueueJoined == queue = <<>> /\ \A w \in Workers : wk[w].pc = "idle"

LookbackJoin(c) ==
    /\ lb[c].pc = "join"
    /\ QueueJoined
    /\ lb' = [lb EXCEPT ![c] = IdleScan]
    /\ lb_lock' = ""
    /\ UNCHANGED <<lb_calls, ixVars>>

LookbackStep(c, max_calls) ==
    \/ LookbackEnter(c, max_calls)
    \/ LookbackScan(c)
    \/ LookbackJoin(c)

(***************************************************************************)
(* _hourly_sweep_loop lines 551-566: after the sleep the sweep window is   *)
(* scanned, without the look-back lock, and the queue is awaited.          *)
(***************************************************************************)
SweepStart ==
    /\ sw.pc = "idle"
    /\ sweeps < MaxSweeps
    /\ sweeps' = sweeps + 1
    /\ sw' = [pc |-> "scan", cur |-> 1, queued |-> 0]
    /\ UNCHANGED ixVars

SweepScan ==
    /\ sw.pc = "scan"
    /\ LET k == <<TargetChat, sw.cur>>
       IN IF sw.cur <= LastMsgId /\ sw.queued < LookbackMessageLimit
          THEN IF ScanQueues(k, sw_from)
               THEN /\ queue' = Append(queue, MsgData(k))
                    /\ sw' = [sw EXCEPT !.cur = @ + 1, !.queued = @ + 1]
               ELSE /\ sw' = [sw EXCEPT !.cur = @ + 1]
                    /\ UNCHANGED queue
          ELSE /\ sw' = IF sw.queued > 0 THEN [sw EXCEPT !.pc = "join"] ELSE IdleScan
               /\ UNCHANGED queue
    /\ UNCHANGED <<sweeps, cfgVars, tgVars, dbVars, enqueued, wkVars, ghostVars>>

SweepJoin ==
    /\ sw.pc = "join"
    /\ QueueJoined
    /\ sw' = IdleScan
    /\ UNCHANGED <<sweeps, ixVars>>

(***************************************************************************)
(* run_daemon_mode and _backfill_chat.                                     *)
(***************************************************************************)
NoBackfill == [cur |-> 0, latest_id |-> 0, counter |-> 0, processed |-> 0]

\* get_last_message_id: 0 stands for None
LastMessageId(st, chat_id) ==
    IF chat_id \in DOMAIN st THEN st[chat_id].last_message_id ELSE 0

\* get_messages(reverse=True, min_message_id=resume_from): the first id the
\* iterator yields is the one strictly after the checkpoint
FirstAfter(resume_from) == resume_from + 1

(***************************************************************************)
(* update_chat as the daemon uses it: run_daemon_mode is its only caller   *)
(* and awaits every call, so the steps of one call are taken together.     *)
(***************************************************************************)
UpdateChat(chat_id, message_id) ==
    /\ calls' = calls + 1
    /\ IF NoProgress(bs_state, chat_id, message_id)
       THEN UNCHANGED <<bs_state, disk, disk_exists>>
       ELSE /\ bs_state' = DictSet(bs_state, chat_id,
                                   BackfillRecord(message_id, calls + 1))
            /\ disk' = bs_state'
            /\ disk_exists' = TRUE
    /\ UNCHANGED <<bs_loaded, bs_lock, st_pc, st_arg, st_buf, max_passed,
                   start_disk>>

\* run_daemon_mode lines 194-204 and _backfill_chat lines 390-404: the
\* checkpoint file is loaded, the workers start, the backfill begins
DaemonStart ==
    /\ dm_pc = "down"
    /\ bs_state' = IF disk_exists THEN DictUpdate(bs_state, disk) ELSE bs_state
    /\ bs_loaded' = TRUE
    /\ dm_pc' = "backfill"
    /\ bf' = [cur |-> FirstAfter(LastMessageId(bs_state', TargetChat)),
              latest_id |-> LastMessageId(bs_state', TargetChat),
              counter |-> 0, processed |-> 0]
    /\ UNCHANGED <<disk_exists, disk, bs_lock, st_pc, st_arg, st_buf, calls,
                   max_passed, start_disk>>
    /\ UNCHANGED <<chatVars, compVars, searchVars, ixVars, dmCfgVars, lbVars, sw, sweeps, stops>>

\* _backfill_chat lines 406-431: one iteration of the message loop
BackfillMessage ==
    /\ dm_pc = "backfill"
    /\ bf.cur <= LastMsgId
    /\ LET k == <<TargetChat, bf.cur>>
           latest == Max2(bf.latest_id, bf.cur)
       IN IF tg[k].text = ""
          THEN /\ bf' = [bf EXCEPT !.cur = @ + 1]
               /\ UNCHANGED <<queue, storeVars>>
          ELSE /\ queue' = Append(queue, MsgData(k))
               /\ IF bf.counter + 1 >= ckpt_interval
                  THEN /\ UpdateChat(TargetChat, latest)
                       /\ bf' = [cur |-> bf.cur + 1, latest_id |-> latest,
                                 counter |-> 0, processed |-> bf.processed + 1]
                  ELSE /\ bf' = [cur |-> bf.cur + 1, latest_id |-> latest,
                                 counter |-> bf.counter + 1,
                                 processed |-> bf.processed + 1]
                       /\ UNCHANGED storeVars
    /\ UNCHANGED <<cfgVars, tgVars, dbVars, enqueued, wkVars, ghostVars>>
    /\ UNCHANGED <<chatVars, compVars, searchVars, dmCfgVars, dm_pc, lbVars, sw, sweeps, stops>>

\* _backfill_chat lines 433-442: the final checkpoint of the chat
BackfillEnd ==
    /\ dm_pc = "backfill"
    /\ bf.cur > LastMsgId
    /\ IF bf.processed > 0 /\ bf.latest_id # 0
       THEN UpdateChat(TargetChat, bf.latest_id)
       ELSE UNCHANGED storeVars
    /\ dm_pc' = "join"
    /\ bf' = NoBackfill
    /\ UNCHANGED <<chatVars, compVars, searchVars, ixVars, dmCfgVars, lbVars, sw, sweeps, stops>>

\* run_daemon_mode line 206: await self.message_queue.join()
InitialJoin ==
    /\ dm_pc = "join"
    /\ QueueJoined
    /\ dm_pc' = "lookback"
    /\ UNCHANGED <<chatVars, compVars, searchVars, storeVars, ixVars, dmCfgVars, bf, lbVars, sw, sweeps, stops>>

\* run_daemon_mode line 208: the startup look-back, then the daemon is ready
StartupLookback ==
    /\ \/ dm_pc = "lookback" /\ LookbackEnter("startup", MaxLookbacks)
       \/ dm_pc = "in_lookback" /\ LookbackScan("startup")
       \/ dm_pc = "in_lookback" /\ LookbackJoin("startup")
    /\ dm_pc' = IF lb'["startup"].pc = "idle" THEN "ready" ELSE "in_lookback"
    /\ UNCHANGED <<chatVars, compVars, searchVars, storeVars, dmCfgVars, bf, sw, sweeps, stops>>

\* _connection_watchdog lines 529-533: a reconnect runs a look-back
WatchdogLookback ==
    /\ dm_pc = "ready"
    /\ LookbackStep("reconnect", MaxLookbacks)
    /\ UNCHANGED <<chatVars, compVars, searchVars, storeVars, dmCfgVars, dm_pc, bf, sw, sweeps, stops>>

HourlySweep ==
    /\ dm_pc = "ready"
    /\ (SweepStart \/ SweepScan \/ SweepJoin)
    /\ UNCHANGED <<chatVars, compVars, searchVars, storeVars, dmCfgVars, dm_pc, bf, lbVars, stops>>

\* the workers of a running daemon; the embedding API and the search index
\* answer every request
WorkerRun(w) ==
    \/ WorkerGet(w)
    \/ ProcessLookup(w)
    \/ EmbedProbe(w)
    \/ EmbedGate(w)
    \/ EmbedBatches(w)
    \/ UpsertChunk(w)
    \/ FeedDocument(w, TRUE)

DaemonWorker ==
    /\ dm_pc # "down"
    /\ \E w \in Workers : WorkerRun(w)
    /\ UNCHANGED <<chatVars, compVars, searchVars, storeVars, dmVars>>

\* what is left of a process that ended: the files, the tables, the index
ProcessGone ==
    /\ dm_pc' = "down"
    /\ stops' = stops + 1
    /\ bf' = NoBackfill
    /\ lb_lock' = ""
    /\ lb' = [c \in Callers |-> IdleScan]
    /\ lb_calls' = 0
    /\ sw' = IdleScan
    /\ sweeps' = 0
    /\ queue' = <<>>
    /\ wk' = [w \in Workers |-> IdleWorker]
    /\ wk_last' = [w \in Workers |-> "none"]
    /\ call_pre' = [w \in Workers |-> NoPre]
    /\ call_est' = [w \in Workers |-> 0]
    /\ call_ret' = [w \in Workers |-> "none"]
    /\ call_metrics' = [w \in Workers |-> NoIncrements]
    /\ bs_state' = EmptyDict
    /\ bs_loaded' = FALSE
    /\ start_disk' = disk
    /\ UNCHANGED <<disk_exists, disk, bs_lock, st_pc, st_arg, st_buf, calls,
                   max_passed>>
    /\ UNCHANGED <<cfgVars, tgVars, dbVars, enqueued, api_calls, cache_writes,
                   last_done, dmCfgVars, chatVars, compVars, searchVars>>

\* the process is killed at any point.  A shutdown (run_daemon_mode lines
\* 220-226: the background tasks are cancelled, the workers finish the
\* queue) ends like a kill of the ready daemon whose queue is done.
Kill ==
    /\ dm_pc # "down"
    /\ stops < MaxStops
    /\ ProcessGone

InitDaemon(intervals, lb_froms, sw_froms) ==
    /\ ckpt_interval \in intervals
    /\ lb_from \in lb_froms
    /\ sw_from \in sw_froms
    /\ sw_from <= lb_from
    /\ dm_pc = "down"
    /\ bf = NoBackfill
    /\ lb_lock = ""
    /\ lb = [c \in Callers |-> IdleScan]
    /\ lb_calls = 0
    /\ sw = IdleScan
    /\ sweeps = 0
    /\ stops = 0

NextDaemon ==
    \/ DaemonStart
    \/ BackfillMessage
    \/ BackfillEnd
    \/ InitialJoin
    \/ StartupLookback
    \/ WatchdogLookback
    \/ HourlySweep
    \/ DaemonWorker
    \/ Kill

(***************************************************************************)
(* One-shot mode: run_once and process_chat (indexer/main.py) over         *)
(* get_messages (indexer/telethon_client.py).                              *)
(***************************************************************************)
OnceChats == <<"c1", "c2">>

\* a message with text, one whose text is blank, a service message
MessageKinds == {"text", "blank", "service"}

\* get_messages lines 185-195: the messages Telegram lists for the request;
\* `if limit:` passes no limit for None and for 0
Listed(history, limit) == IF limit # 0 THEN FirstN(history, limit) ELSE history

\* run_once lines 172-175: the limit of the next process_chat call (0: None)
RemainingLimit == IF oc_limit # 0 THEN oc_limit - oc_total ELSE 0

OnceListing == Listed(oc_hist[OnceChats[oc_chat]], oc_asked[Len(oc_asked)].limit)

OnceIdle ==
    /\ oc_limit = 0
    /\ oc_hist = [c \in {} |-> <<>>]
    /\ oc_pc = "idle"
    /\ oc_chat = 1
    /\ oc_pos = 1
    /\ oc_count = 0
    /\ oc_total = 0
    /\ oc_asked = <<>>
    /\ oc_processed = {}
    /\ oc_flood = FALSE

InitOnce(limits) ==
    /\ oc_limit \in limits
    /\ oc_hist \in [{OnceChats[i] : i \in DOMAIN OnceChats} ->
                       SeqsUpTo(MessageKinds, MaxHistory)]
    /\ oc_pc = "loop"
    /\ oc_chat = 1
    /\ oc_pos = 1
    /\ oc_count = 0
    /\ oc_total = 0
    /\ oc_asked = <<>>
    /\ oc_processed = {}
    /\ oc_flood = FALSE

\* run_once lines 169-186: one round of the loop over the chats, up to the
\* call of process_chat
OnceRound ==
    /\ oc_pc = "loop"
    /\ IF oc_chat > Len(OnceChats) \/ (oc_limit # 0 /\ RemainingLimit <= 0)
       THEN /\ oc_pc' = "done"
            /\ UNCHANGED <<oc_pos, oc_count, oc_asked>>
       ELSE /\ oc_pc' = "chat"
            /\ oc_pos' = 1
            /\ oc_count' = 0
            /\ oc_asked' = Append(oc_asked,
                                  [chat |-> oc_chat, limit |-> RemainingLimit,
                                   done_before |-> Cardinality(oc_processed)])
    /\ UNCHANGED <<oc_limit, oc_hist, oc_chat, oc_total, oc_processed, oc_flood>>

\* get_messages lines 195-209 and process_chat lines 591-609 on the next
\* listed message; outcome "raise": the listing or process_message raises
\* and process_chat re-raises (lines 616-618), which ends run_once
OnceMessage(outcome) ==
    /\ oc_pc = "chat"
    /\ oc_pos <= Len(OnceListing)
    /\ IF outcome = "raise"
       THEN /\ oc_pc' = "raised"
            /\ UNCHANGED <<oc_pos, oc_count, oc_processed>>
       ELSE /\ oc_pos' = oc_pos + 1
            /\ oc_pc' = oc_pc
            /\ IF OnceListing[oc_pos] = "text"
               THEN /\ oc_count' = oc_count + 1
                    /\ oc_processed' = oc_processed \cup {<<oc_chat, oc_pos>>}
               ELSE UNCHANGED <<oc_count, oc_processed>>
    /\ UNCHANGED <<oc_limit, oc_hist, oc_chat, oc_total, oc_asked, oc_flood>>

\* the listing ends and process_chat returns (lines 620-624), run_once adds
\* the count (line 185).  get_messages lines 211-213: a FloodWaitError ends
\* the listing after a sleep, whatever is left of the history
OnceChatEnd(flood) ==
    /\ oc_pc = "chat"
    /\ IF flood THEN oc_pos <= Len(OnceListing) ELSE oc_pos > Len(OnceListing)
    /\ oc_total' = oc_total + oc_count
    /\ oc_chat' = oc_chat + 1
    /\ oc_pc' = "loop"
    /\ oc_flood' = (oc_flood \/ flood)
    /\ UNCHANGED <<oc_limit, oc_hist, oc_pos, oc_count, oc_asked, oc_processed>>

NextOnce ==
    /\ \/ OnceRound
       \/ \E outcome \in {"ok", "raise"} : OnceMessage(outcome)
       \/ \E flood \in BOOLEAN : OnceChatEnd(flood)
    /\ UNCHANGED <<storeVars, ixVars, dmVars, chatVars, searchVars, feedVars, batchVars, embedVars, tombVars, loopVars, bkVars, startVars, trimVars, rkVars, chunkVars>>

(***************************************************************************)
(* VespaClient.feed_document (indexer/vespa_client.py): the POST of one    *)
(* document with its retries and the feed metrics.                         *)
(***************************************************************************)
\* the answer to one POST: a status code, or the request raises
PostOutcomes == {"200", "201", "400", "503", "raise"}

\* line 72: response.status_code in [200, 201]
SuccessStatusOnly200(outcome) == outcome = "200"

SuccessStatus(outcome) == outcome \in {"200", "201"}

\* lines 89 and 96: attempt < 2, another attempt follows
RetriesLeft(attempt) == attempt < 2

NoMetrics == [success |-> 0, retries |-> 0, failures |-> 0]

FeedIdle ==
    /\ fd_pc = "idle"
    /\ fd_attempt = 0
    /\ fd_log = <<>>
    /\ fd_ret = "none"
    /\ fd_metrics = NoMetrics
    /\ fd_before = NoMetrics
    /\ fd_calls = 0

InitFeed ==
    /\ fd_pc = "ready"
    /\ fd_attempt = 0
    /\ fd_log = <<>>
    /\ fd_ret = "none"
    /\ fd_metrics = NoMetrics
    /\ fd_before = NoMetrics
    /\ fd_calls = 0

\* feed_document is called, lines 31-63
FeedCall ==
    /\ fd_pc \in {"ready", "returned"}
    /\ fd_calls < MaxFeeds
    /\ fd_calls' = fd_calls + 1
    /\ fd_pc' = "post"
    /\ fd_attempt' = 0
    /\ fd_log' = <<>>
    /\ fd_ret' = "none"
    /\ fd_before' = fd_metrics
    /\ UNCHANGED fd_metrics

\* one round of the loop, lines 64-105: the POST and what follows its answer,
\* up to the return or the sleep before the next attempt
FeedAttempt(outcome) ==
    /\ fd_pc = "post"
    /\ fd_log' = Append(fd_log, outcome)
    /\ IF outcome # "raise" /\ SuccessStatus(outcome)
       THEN /\ fd_metrics' = [fd_metrics EXCEPT !.success = @ + 1]
            /\ fd_ret' = "True"
            /\ fd_pc' = "returned"
       ELSE IF RetriesLeft(fd_attempt)
       THEN /\ fd_metrics' = [fd_metrics EXCEPT !.retries = @ + 1]
            /\ fd_pc' = "sleep"
            /\ UNCHANGED fd_ret
       ELSE /\ fd_metrics' = [fd_metrics EXCEPT !.failures = @ + 1]
            /\ fd_ret' = "False"
            /\ fd_pc' = "returned"
    /\ UNCHANGED <<fd_attempt, fd_before, fd_calls>>

\* asyncio.sleep(wait_time) returns and the loop goes on, lines 91 and 104
FeedWake ==
    /\ fd_pc = "sleep"
    /\ fd_pc' = "post"
    /\ fd_attempt' = fd_attempt + 1
    /\ UNCHANGED <<fd_log, fd_ret, fd_metrics, fd_before, fd_calls>>

NextFeed ==
    /\ \/ FeedCall
       \/ \E outcome \in PostOutcomes : FeedAttempt(outcome)
       \/ FeedWake
    /\ UNCHANGED <<storeVars, ixVars, dmVars, chatVars, searchVars, onceVars, batchVars, embedVars, tombVars, loopVars, bkVars, startVars, trimVars, rkVars, chunkVars>>

(***************************************************************************)
(* EmbeddingProvider._embed_batch (indexer/embedder.py): one batch sent to *)
(* the embedding API, with its retries.                                    *)
(***************************************************************************)
\* how one embeddings.create call ends
ApiOutcomes == {"ok", "timeout", "rate_limit"}

BackoffChoices == {1, 10, 500}

\* line 214: wait_time = (base_ms * (2**attempt)) / 1000 seconds, kept in
\* milliseconds
WaitMsNextPower(base_ms, attempt) == base_ms * 2^(attempt + 1)

WaitMs(base_ms, attempt) == base_ms * 2^attempt

BatchIdle ==
    /\ eb_base = 0
    /\ eb_pc = "idle"
    /\ eb_attempt = 0
    /\ eb_log = <<>>
    /\ eb_ret = "none"
    /\ eb_calls = 0

InitBatch ==
    /\ eb_base \in BackoffChoices
    /\ eb_pc = "ready"
    /\ eb_attempt = 0
    /\ eb_log = <<>>
    /\ eb_ret = "none"
    /\ eb_calls = 0

\* _embed_batch is called for a batch and holds the semaphore, lines 178-196
BatchCall ==
    /\ eb_pc \in {"ready", "ended"}
    /\ eb_calls < MaxBatchCalls
    /\ eb_calls' = eb_calls + 1
    /\ eb_pc' = "create"
    /\ eb_attempt' = 0
    /\ eb_log' = <<>>
    /\ eb_ret' = "none"
    /\ UNCHANGED eb_base

\* one round of the loop, lines 197-222: the API call and what follows it,
\* up to the return, the raise or the sleep before the next attempt
BatchAttempt(outcome) ==
    /\ eb_pc = "create"
    /\ IF outcome = "ok"
       THEN /\ eb_log' = Append(eb_log, <<"create", outcome, 0>>)
            /\ eb_ret' = "results"
            /\ eb_pc' = "ended"
       ELSE IF eb_attempt < 2
       THEN /\ eb_log' = eb_log \o <<<<"create", outcome, 0>>,
                                     <<"sleep", "", WaitMs(eb_base, eb_attempt)>>>>
            /\ eb_pc' = "sleep"
            /\ UNCHANGED eb_ret
       ELSE /\ eb_log' = Append(eb_log, <<"create", outcome, 0>>)
            /\ eb_ret' = outcome
            /\ eb_pc' = "ended"
    /\ UNCHANGED <<eb_base, eb_attempt, eb_calls>>

\* asyncio.sleep(wait_time) returns and the loop goes on, line 220
BatchWake ==
    /\ eb_pc = "sleep"
    /\ eb_pc' = "create"
    /\ eb_attempt' = eb_attempt + 1
    /\ UNCHANGED <<eb_base, eb_log, eb_ret, eb_calls>>

NextBatch ==
    /\ \/ BatchCall
       \/ \E outcome \in ApiOutcomes : BatchAttempt(outcome)
       \/ BatchWake
    /\ UNCHANGED <<storeVars, ixVars, dmVars, chatVars, searchVars, onceVars, feedVars, embedVars, tombVars, loopVars, bkVars, startVars, trimVars, rkVars, chunkVars>>

(***************************************************************************)
(* EmbeddingProvider.embed_texts (indexer/embedder.py) without dry_run and *)
(* without a budget: cache lookups, batches, API calls, cache writes.  The *)
(* hash of a text contains the model (ComputeTextHash), so a cached row of *)
(* the hash is a row of the current model.                                 *)
(***************************************************************************)
EmbedInputs == {"a", "b"}

\* a vector as the API returns it, and as _vector_to_bytes and
\* _bytes_to_vector give it back from the cache (packed as 32-bit floats)
ApiVector(text) == <<text, "f64">>

CachedVector(text) == <<text, "f32">>

\* lines 150-153: range(0, len(texts_to_embed), batch_size) and the slices
BatchSlicesFullOnly(misses, size) ==
    [b \in 1..(Len(misses) \div size) |->
        SubSeq(misses, (b - 1) * size + 1, b * size)]

BatchSlices(misses, size) ==
    [b \in 1..((Len(misses) + size - 1) \div size) |->
        SubSeq(misses, (b - 1) * size + 1, Min(b * size, Len(misses)))]

\* _embed_batch lines 202-207: the pairs built from a response that carries
\* one embedding per input
BatchResult(batch) == [i \in DOMAIN batch |-> <<batch[i][2], ApiVector(batch[i][1])>>]

RECURSIVE Flatten(_)
Flatten(seqs) == IF seqs = <<>> THEN <<>> ELSE Head(seqs) \o Flatten(Tail(seqs))

EmbedIdle ==
    /\ et_texts = <<>>
    /\ et_bsize = 1
    /\ et_cache = {}
    /\ et_cache0 = {}
    /\ et_pc = "idle"
    /\ et_i = 1
    /\ et_results = <<>>
    /\ et_misses = <<>>
    /\ et_tasks = <<>>
    /\ et_sent = <<>>

InitEmbed ==
    /\ et_texts \in SeqsUpTo(EmbedInputs, MaxTexts)
    /\ et_bsize \in {1, 2}
    /\ et_cache \in SUBSET {ComputeTextHash(t) : t \in EmbedInputs}
    /\ et_cache0 = et_cache
    /\ et_pc = "probe"
    /\ et_i = 1
    /\ et_results = <<>>
    /\ et_misses = <<>>
    /\ et_tasks = <<>>
    /\ et_sent = <<>>

\* lines 97-107: the cache lookup of one text
EmbedLookup ==
    /\ et_pc = "probe"
    /\ et_i <= Len(et_texts)
    /\ LET text == et_texts[et_i]
           text_hash == ComputeTextHash(text)
       IN IF text_hash \in et_cache
          THEN /\ et_results' = Append(et_results, <<text_hash, CachedVector(text)>>)
               /\ UNCHANGED et_misses
          ELSE /\ et_misses' = Append(et_misses, <<text, text_hash>>)
               /\ UNCHANGED et_results
    /\ et_i' = et_i + 1
    /\ UNCHANGED <<et_texts, et_bsize, et_cache, et_cache0, et_pc, et_tasks, et_sent>>

\* lines 90-91 and 109-155: nothing to embed returns the cached results,
\* otherwise one _embed_batch task per slice is started
EmbedStart ==
    /\ et_pc = "probe"
    /\ et_i > Len(et_texts)
    /\ IF et_misses = <<>>
       THEN /\ et_pc' = "returned"
            /\ UNCHANGED et_tasks
       ELSE /\ et_pc' = "batches"
            /\ et_tasks' = [b \in DOMAIN BatchSlices(et_misses, et_bsize) |->
                               [batch |-> BatchSlices(et_misses, et_bsize)[b],
                                attempt |-> 0, state |-> "run"]]
    /\ et_sent' = [b \in DOMAIN et_tasks' |-> [calls |-> 0, answered |-> 0]]
    /\ UNCHANGED <<et_texts, et_bsize, et_cache, et_cache0, et_i, et_results,
                   et_misses>>

\* _embed_batch lines 197-222: one round of the retry loop of task b; the
\* third failure raises through gather (line 155), which leaves the other
\* tasks running
EmbedAttempt(b, ok) ==
    /\ et_pc \in {"batches", "raised"}
    /\ b \in DOMAIN et_tasks
    /\ et_tasks[b].state = "run"
    /\ et_sent' = [et_sent EXCEPT ![b].calls = @ + 1,
                                  ![b].answered = @ + (IF ok THEN 1 ELSE 0)]
    /\ IF ok
       THEN /\ et_tasks' = [et_tasks EXCEPT ![b].state = "ok"]
            /\ UNCHANGED et_pc
       ELSE IF et_tasks[b].attempt < 2
       THEN /\ et_tasks' = [et_tasks EXCEPT ![b].attempt = @ + 1]
            /\ UNCHANGED et_pc
       ELSE /\ et_tasks' = [et_tasks EXCEPT ![b].state = "failed"]
            /\ et_pc' = "raised"
    /\ UNCHANGED <<et_texts, et_bsize, et_cache, et_cache0, et_i, et_results,
                   et_misses>>

\* lines 155-176: every batch has its answer; the pairs are appended to the
\* results and written to the cache (INSERT ... ON CONFLICT DO NOTHING)
EmbedWrite ==
    /\ et_pc = "batches"
    /\ \A b \in DOMAIN et_tasks : et_tasks[b].state = "ok"
    /\ LET pairs == Flatten([b \in DOMAIN et_tasks |-> BatchResult(et_tasks[b].batch)])
       IN /\ et_results' = et_results \o pairs
          /\ et_cache' = et_cache \cup {pairs[i][1] : i \in DOMAIN pairs}
    /\ et_pc' = "returned"
    /\ UNCHANGED <<et_texts, et_bsize, et_cache0, et_i, et_misses, et_tasks, et_sent>>

NextEmbed ==
    /\ \/ EmbedLookup
       \/ EmbedStart
       \/ \E b \in 1..MaxTexts, ok \in BOOLEAN : EmbedAttempt(b, ok)
       \/ EmbedWrite
    /\ UNCHANGED <<storeVars, ixVars, dmVars, chatVars, searchVars, onceVars, feedVars, batchVars, tombVars, loopVars, bkVars, startVars, trimVars, rkVars, chunkVars>>

(***************************************************************************)
(* Tombstones and retrieval: mark_chunks_deleted (indexer/db.py) and the   *)
(* queries of the search client (api/app/search.py _build_query,           *)
(* _fetch_neighbors) over the documents of the search engine.              *)
(***************************************************************************)
TombChats == {"c1", "c2"}

TombIds == {1, 2, 4}

\* settings.search_neighbor_message_window
NeighborMessageWindow == 1

\* deleted_at of a row that is not deleted (None)
NotDeleted == 0

\* the value passed as deleted_at
DeletedAtChoices == {7}

TombDocs == [chat_id : TombChats, message_id : TombIds]

\* _build_query lines 945-952 and 991-998: the filters of the seed query;
\* the text of every document matches the question
SeedWhere(doc, req_chat_id) == req_chat_id # "" => doc.chat_id = req_chat_id

\* _fetch_neighbors lines 544-564: chat_id and the message_id window of a
\* seed without thread and date
NeighborWhere(doc, seed) ==
    /\ doc.chat_id = seed.chat_id
    /\ doc.message_id >= Max(seed.message_id - NeighborMessageWindow, 0)
    /\ doc.message_id <= seed.message_id + NeighborMessageWindow

TombIdle ==
    /\ tb_chunks = {}
    /\ tb_index = {}
    /\ tb_pc = "idle"
    /\ tb_req = ""
    /\ tb_seeds = {}
    /\ tb_neighbors = {}
    /\ tb_tombs = {}

\* the chunk row of the document carries a deleted_at
Tombstoned(doc, rows) ==
    \E row \in rows : /\ row.chat_id = doc.chat_id
                      /\ row.message_id = doc.message_id
                      /\ row.deleted_at # NotDeleted

\* every indexed message has its row and its document
InitTomb ==
    /\ tb_index \in SUBSET TombDocs
    /\ tb_chunks = {[chat_id |-> d.chat_id, message_id |-> d.message_id,
                     deleted_at |-> NotDeleted] : d \in tb_index}
    /\ tb_pc = "ready"
    /\ tb_req = ""
    /\ tb_seeds = {}
    /\ tb_neighbors = {}
    /\ tb_tombs = {}

\* mark_chunks_deleted lines 244-252: UPDATE chunks SET deleted_at = $3
\* WHERE chat_id = $1 AND message_id = $2; the documents are not touched
MarkChunksDeleted(chat_id, message_id, deleted_at) ==
    /\ \E row \in tb_chunks : row.chat_id = chat_id /\ row.message_id = message_id
                              /\ row.deleted_at # deleted_at
    /\ tb_chunks' = {IF row.chat_id = chat_id /\ row.message_id = message_id
                     THEN [row EXCEPT !.deleted_at = deleted_at] ELSE row :
                     row \in tb_chunks}
    /\ UNCHANGED <<tb_index, tb_pc, tb_req, tb_seeds, tb_neighbors, tb_tombs>>

\* search lines 343-363: the seed query of a request
TombSeedQuery(req_chat_id) ==
    /\ tb_pc \in {"ready", "done"}
    /\ tb_req' = req_chat_id
    /\ tb_seeds' = {doc \in tb_index : SeedWhere(doc, req_chat_id)}
    /\ tb_neighbors' = {}
    /\ tb_tombs' = {doc \in tb_index : Tombstoned(doc, tb_chunks)}
    /\ tb_pc' = "expand"
    /\ UNCHANGED <<tb_chunks, tb_index>>

\* _expand_seed / _fetch_neighbors: the neighbour queries of the seeds
TombNeighborQueries ==
    /\ tb_pc = "expand"
    /\ tb_neighbors' = {doc \in tb_index :
                           \E seed \in tb_seeds : NeighborWhere(doc, seed)}
    /\ tb_pc' = "done"
    /\ UNCHANGED <<tb_chunks, tb_index, tb_req, tb_seeds, tb_tombs>>

NextTomb ==
    /\ \/ \E c \in TombChats, m \in TombIds, t \in DeletedAtChoices :
              MarkChunksDeleted(c, m, t)
       \/ \E c \in TombChats \cup {""} : TombSeedQuery(c)
       \/ TombNeighborQueries
    /\ UNCHANGED <<storeVars, ixVars, dmVars, chatVars, searchVars, onceVars, feedVars, batchVars, embedVars, loopVars, bkVars, startVars, trimVars, rkVars, chunkVars>>

(***************************************************************************)
(* The worker pool of the daemon and its shutdown (indexer/main.py):       *)
(* _worker_loop, _handle_event_message, _enqueue_message_data, the finally *)
(* block of run_daemon_mode, _stop_workers.  The queue is unbounded, so a  *)
(* put never waits.                                                        *)
(***************************************************************************)
\* daemon_worker_concurrency worker tasks
PoolWorkers == {1, 2}

\* the None put on the queue by _stop_workers (line 262)
Sentinel == 0

IdleLoop == [pc |-> "get", item |-> Sentinel]

\* how the wait of run_daemon_mode at line 220 ends: shutdown() has set the
\* event, or the task is cancelled (CancelledError)
ShutdownKinds == {"event", "cancel"}

LoopIdle ==
    /\ wq = <<>>
    /\ wq_unfinished = 0
    /\ ww = [w \in PoolWorkers |-> [pc |-> "none", item |-> Sentinel]]
    /\ sd_pc = "idle"
    /\ sd_event = FALSE
    /\ sd_handlers = FALSE
    /\ wl_events = 0
    /\ wl_done = <<>>
    /\ wl_attempted = {}
    /\ wl_taken = [w \in PoolWorkers |-> 0]
    /\ wl_late = {}
    /\ wl_raised = {}

\* the daemon is ready: workers started, handlers registered (lines 198-219)
InitLoop ==
    /\ wq = <<>>
    /\ wq_unfinished = 0
    /\ ww = [w \in PoolWorkers |-> IdleLoop]
    /\ sd_pc = "ready"
    /\ sd_event = FALSE
    /\ sd_handlers = TRUE
    /\ wl_events = 0
    /\ wl_done = <<>>
    /\ wl_attempted = {}
    /\ wl_taken = [w \in PoolWorkers |-> 0]
    /\ wl_late = {}
    /\ wl_raised = {}

\* _handle_event_message lines 326-351 and _enqueue_message_data lines
\* 353-359 for a message with text of a target chat: nothing once the
\* shutdown event is set, else the message is put on the queue
EventMessage ==
    /\ sd_handlers
    /\ wl_events < MaxEvents
    /\ wl_events' = wl_events + 1
    /\ IF sd_event
       THEN UNCHANGED <<wq, wq_unfinished, wl_done, wl_late>>
       ELSE /\ wq' = Append(wq, wl_events + 1)
            /\ wq_unfinished' = wq_unfinished + 1
            /\ wl_done' = Append(wl_done, 0)
            /\ wl_late' = IF sd_pc \in {"stopping", "stopped"}
                          THEN wl_late \cup {wl_events + 1} ELSE wl_late
    /\ UNCHANGED <<ww, sd_pc, sd_event, sd_handlers, wl_attempted, wl_taken, wl_raised>>

\* _worker_loop lines 239-242: the next item is taken; on None the worker
\* calls task_done and leaves the loop
WorkerTake(w) ==
    /\ ww[w].pc = "get"
    /\ wq # <<>>
    /\ wq' = Tail(wq)
    /\ IF Head(wq) = Sentinel
       THEN /\ wq_unfinished' = wq_unfinished - 1
            /\ ww' = [ww EXCEPT ![w].pc = "exited"]
            /\ wl_taken' = [wl_taken EXCEPT ![w] = @ + 1]
       ELSE /\ ww' = [ww EXCEPT ![w] = [pc |-> "process", item |-> Head(wq)]]
            /\ UNCHANGED <<wq_unfinished, wl_taken>>
    /\ UNCHANGED <<sd_pc, sd_event, sd_handlers, wl_events, wl_done,
                   wl_attempted, wl_late, wl_raised>>

\* _worker_loop lines 244-254: process_message returns or raises an
\* Exception, which is logged; task_done in the finally clause; the loop
\* goes on.  The mutant lets the exception out of the loop.
WorkerProcessedDiesOnError(w, raised) ==
    /\ ww[w].pc = "process"
    /\ wl_attempted' = wl_attempted \cup {ww[w].item}
    /\ IF raised
       THEN /\ ww' = [ww EXCEPT ![w].pc = "exited"]
            /\ UNCHANGED <<wq_unfinished, wl_done>>
       ELSE /\ wq_unfinished' = wq_unfinished - 1
            /\ wl_done' = [wl_done EXCEPT ![ww[w].item] = @ + 1]
            /\ ww' = [ww EXCEPT ![w] = IdleLoop]
    /\ wl_raised' = IF raised THEN wl_raised \cup {<<w, ww[w].item>>} ELSE wl_raised
    /\ UNCHANGED <<wq, sd_pc, sd_event, sd_handlers, wl_events, wl_taken, wl_late>>

WorkerProcessed(w, raised) ==
    /\ ww[w].pc = "process"
    /\ raised \in BOOLEAN
    /\ wl_attempted' = wl_attempted \cup {ww[w].item}
    /\ wq_unfinished' = wq_unfinished - 1
    /\ wl_done' = [wl_done EXCEPT ![ww[w].item] = @ + 1]
    /\ ww' = [ww EXCEPT ![w] = IdleLoop]
    /\ wl_raised' = IF raised THEN wl_raised \cup {<<w, ww[w].item>>} ELSE wl_raised
    /\ UNCHANGED <<wq, sd_pc, sd_event, sd_handlers, wl_events, wl_taken, wl_late>>

\* run_daemon_mode lines 220-224: the wait ends and the finally block is
\* entered; the background tasks are cancelled
ShutdownStarts(kind) ==
    /\ sd_pc = "ready"
    /\ sd_event' = (kind = "event")
    /\ sd_pc' = "finally"
    /\ UNCHANGED <<wq, wq_unfinished, ww, sd_handlers, wl_events, wl_done,
                   wl_attempted, wl_taken, wl_late, wl_raised>>

\* _stop_workers lines 261-262: one None per worker task
StopWorkersPut ==
    /\ sd_pc = "finally"
    /\ wq' = wq \o [w \in 1..Cardinality(PoolWorkers) |-> Sentinel]
    /\ wq_unfinished' = wq_unfinished + Cardinality(PoolWorkers)
    /\ sd_pc' = "stopping"
    /\ UNCHANGED <<ww, sd_event, sd_handlers, wl_events, wl_done, wl_attempted,
                   wl_taken, wl_late, wl_raised>>

\* _stop_workers lines 264-268 and run_daemon_mode line 226: every worker
\* task has ended, then the event handlers are removed
StopWorkersJoined ==
    /\ sd_pc = "stopping"
    /\ \A w \in PoolWorkers : ww[w].pc = "exited"
    /\ sd_handlers' = FALSE
    /\ sd_pc' = "stopped"
    /\ UNCHANGED <<wq, wq_unfinished, ww, sd_event, wl_events, wl_done,
                   wl_attempted, wl_taken, wl_late, wl_raised>>

PoolStep ==
    \/ \E w \in PoolWorkers : WorkerTake(w)
    \/ \E w \in PoolWorkers, raised \in BOOLEAN : WorkerProcessed(w, raised)

ShutdownStep ==
    \/ \E kind \in ShutdownKinds : ShutdownStarts(kind)
    \/ StopWorkersPut
    \/ StopWorkersJoined

NextLoop ==
    /\ \/ EventMessage
       \/ PoolStep
       \/ ShutdownStep
    /\ UNCHANGED <<storeVars, ixVars, dmVars, chatVars, searchVars, onceVars, feedVars, batchVars, embedVars, tombVars, bkVars, startVars, trimVars, rkVars, chunkVars>>

(***************************************************************************)
(* The backfill of one chat: _backfill_chat (indexer/main.py) over         *)
(* get_messages (indexer/telethon_client.py) and update_chat               *)
(* (indexer/state.py).  Message ids are 1..Len(bk_hist).                   *)
(***************************************************************************)
NoLocals == [processed |-> 0, latest_id |-> 0, checkpoint_counter |-> 0]

BkIdle ==
    /\ bk_hist = <<>>
    /\ bk_interval = 1
    /\ bk_ckpt = 0
    /\ bk_pc = "idle"
    /\ bk_limit = 0
    /\ bk_resume = 0
    /\ bk_list = <<>>
    /\ bk_pos = 1
    /\ bk_local = NoLocals
    /\ bk_enq = {}
    /\ bk_end = ""
    /\ bk_runs = 0

InitBackfill(intervals) ==
    /\ bk_hist \in SeqsUpTo(MessageKinds, MaxBackfill)
    /\ bk_interval \in intervals
    /\ bk_ckpt = 0
    /\ bk_pc = "idle"
    /\ bk_limit = 0
    /\ bk_resume = 0
    /\ bk_list = <<>>
    /\ bk_pos = 1
    /\ bk_local = NoLocals
    /\ bk_enq = {}
    /\ bk_end = ""
    /\ bk_runs = 0

\* update_chat lines 71-84: the checkpoint after update_chat(message_id)
Checkpointed(existing, message_id) ==
    IF existing # 0 /\ existing >= message_id THEN existing ELSE message_id

\* the ids of the history from the first one the iterator yields
HistoryFrom(first) == [i \in 1..(Len(bk_hist) - (first - 1)) |-> i + first - 1]

\* _backfill_chat lines 390-412: the checkpoint is read and the messages
\* after it are requested, oldest first
ChatBackfillStart(limit_messages) ==
    /\ bk_pc \in {"idle", "returned", "raised"}
    /\ bk_runs < MaxBackfills
    /\ bk_runs' = bk_runs + 1
    /\ bk_limit' = limit_messages
    /\ bk_resume' = bk_ckpt
    /\ bk_list' = Listed(HistoryFrom(FirstAfter(bk_ckpt)), limit_messages)
    /\ bk_pos' = 1
    /\ bk_local' = [processed |-> 0, latest_id |-> bk_ckpt,
                    checkpoint_counter |-> 0]
    /\ bk_enq' = {}
    /\ bk_end' = ""
    /\ bk_pc' = "loop"
    /\ UNCHANGED <<bk_hist, bk_interval, bk_ckpt>>

\* One listed message: get_messages lines 197-207 drops a service message;
\* _backfill_chat lines 413-431 skips a blank one, and for a message with
\* text enqueues it, counts it, leaves the loop at the limit and else
\* persists the checkpoint every backfill_checkpoint_interval messages.
\* The mutant never persists inside the loop.
ChatBackfillMessageNoCheckpoint ==
    /\ bk_pc = "loop"
    /\ bk_pos <= Len(bk_list)
    /\ bk_pos' = bk_pos + 1
    /\ LET id == bk_list[bk_pos]
           latest == Max2(bk_local.latest_id, id)
       IN IF bk_hist[id] # "text"
          THEN UNCHANGED <<bk_ckpt, bk_pc, bk_local, bk_enq, bk_end>>
          ELSE /\ bk_enq' = bk_enq \cup {id}
               /\ bk_ckpt' = bk_ckpt
               /\ bk_local' = [processed |-> bk_local.processed + 1,
                               latest_id |-> latest,
                               checkpoint_counter |-> bk_local.checkpoint_counter + 1]
               /\ IF bk_limit # 0 /\ bk_local.processed + 1 >= bk_limit
                  THEN bk_pc' = "after" /\ bk_end' = "limit"
                  ELSE UNCHANGED <<bk_pc, bk_end>>
    /\ UNCHANGED <<bk_hist, bk_interval, bk_limit, bk_resume, bk_list, bk_runs>>

ChatBackfillMessage ==
    /\ bk_pc = "loop"
    /\ bk_pos <= Len(bk_list)
    /\ bk_pos' = bk_pos + 1
    /\ LET id == bk_list[bk_pos]
           latest == Max2(bk_local.latest_id, id)
       IN IF bk_hist[id] # "text"
          THEN UNCHANGED <<bk_ckpt, bk_pc, bk_local, bk_enq, bk_end>>
          ELSE /\ bk_enq' = bk_enq \cup {id}
               /\ IF bk_limit # 0 /\ bk_local.processed + 1 >= bk_limit
                  THEN /\ bk_pc' = "after"
                       /\ bk_end' = "limit"
                       /\ bk_local' = [processed |-> bk_local.processed + 1,
                                       latest_id |-> latest,
                                       checkpoint_counter |->
                                           bk_local.checkpoint_counter + 1]
                       /\ UNCHANGED bk_ckpt
                  ELSE /\ UNCHANGED <<bk_pc, bk_end>>
                       /\ IF bk_local.checkpoint_counter + 1 >= bk_interval
                          THEN /\ bk_ckpt' = Checkpointed(bk_ckpt, latest)
                               /\ bk_local' = [processed |-> bk_local.processed + 1,
                                               latest_id |-> latest,
                                               checkpoint_counter |-> 0]
                          ELSE /\ bk_local' = [processed |-> bk_local.processed + 1,
                                               latest_id |-> latest,
                                               checkpoint_counter |->
                                                   bk_local.checkpoint_counter + 1]
                               /\ UNCHANGED bk_ckpt
    /\ UNCHANGED <<bk_hist, bk_interval, bk_limit, bk_resume, bk_list, bk_runs>>

\* how a get_messages iteration ends: the listing is exhausted, a flood wait
\* ends it early (lines 211-213), another error is raised (lines 214-216)
ListingEnds == {"exhausted", "flood", "raise"}

ChatBackfillStops(ending) ==
    /\ bk_pc = "loop"
    /\ ending = "exhausted" => bk_pos > Len(bk_list)
    /\ ending # "exhausted" => bk_pos <= Len(bk_list)
    /\ bk_end' = ending
    /\ bk_pc' = IF ending = "raise" THEN "raised" ELSE "after"
    /\ UNCHANGED <<bk_hist, bk_interval, bk_ckpt, bk_limit, bk_resume, bk_list,
                   bk_pos, bk_local, bk_enq, bk_runs>>

\* _backfill_chat lines 433-442: the checkpoint at the end of the chat
ChatBackfillReturn ==
    /\ bk_pc = "after"
    /\ bk_ckpt' = IF bk_local.processed # 0 /\ bk_local.latest_id # 0
                  THEN Checkpointed(bk_ckpt, bk_local.latest_id)
                  ELSE bk_ckpt
    /\ bk_pc' = "returned"
    /\ UNCHANGED <<bk_hist, bk_interval, bk_limit, bk_resume, bk_list, bk_pos,
                   bk_local, bk_enq, bk_end, bk_runs>>

NextBackfill ==
    /\ \/ \E limit_messages \in 0..MaxBackfill : ChatBackfillStart(limit_messages)
       \/ ChatBackfillMessage
       \/ \E ending \in ListingEnds : ChatBackfillStops(ending)
       \/ ChatBackfillReturn
    /\ UNCHANGED <<storeVars, ixVars, dmVars, chatVars, searchVars, onceVars, feedVars, batchVars, embedVars, tombVars, loopVars, startVars, trimVars, rkVars, chunkVars>>

(***************************************************************************)
(* The start-up of the daemon: run_daemon_mode lines 199-220 with the      *)
(* workers and the event handlers (indexer/main.py).  An item of the queue *)
(* is the name of what enqueued it.                                        *)
(***************************************************************************)
Origins == {"backfill", "event", "lookback"}

\* unfinished tasks of the queue: the waiting items and those being processed
Unfinished(q, busy) == Len(q) + Cardinality({w \in PoolWorkers : busy[w] # ""})

InJoin(pc) == pc \in {"join", "lookback_join"}

StartIdle ==
    /\ su_pc = "idle"
    /\ su_handlers = FALSE
    /\ su_left = 0
    /\ su_lb_left = 0
    /\ su_lb_queued = 0
    /\ su_queue = <<>>
    /\ su_busy = [w \in PoolWorkers |-> ""]
    /\ su_woken = FALSE
    /\ su_tasks = {}
    /\ su_late = 0
    /\ su_seen = {}

\* run_daemon_mode after _start_workers (line 199)
InitStart ==
    /\ su_pc = "register"
    /\ su_handlers = FALSE
    /\ su_left \in 0..MaxStartBackfill
    /\ su_lb_left \in 0..MaxStartLookback
    /\ su_lb_queued = 0
    /\ su_queue = <<>>
    /\ su_busy = [w \in PoolWorkers |-> ""]
    /\ su_woken = FALSE
    /\ su_tasks = {}
    /\ su_late = 0
    /\ su_seen = {}

\* run_daemon_mode lines 202-205: the handlers are registered, then the
\* initial backfill is called
RegisterHandlers ==
    /\ su_pc = "register"
    /\ su_handlers' = TRUE
    /\ su_pc' = "backfill"
    /\ UNCHANGED <<su_left, su_lb_left, su_lb_queued, su_queue, su_busy,
                   su_woken, su_tasks, su_late, su_seen>>

\* _handle_event_message: a live message is put on the queue.  During the
\* backfill any number of them arrives.
LiveEvent ==
    /\ su_handlers
    /\ Len(su_queue) < MaxBacklog
    /\ su_pc = "backfill" \/ su_late < MaxLateEvents
    /\ su_queue' = Append(su_queue, "event")
    /\ su_late' = IF su_pc = "backfill" THEN su_late ELSE su_late + 1
    /\ su_seen' = IF su_pc = "backfill" THEN su_seen \cup {"event_in_backfill"}
                  ELSE su_seen
    /\ UNCHANGED <<su_pc, su_handlers, su_left, su_lb_left, su_lb_queued,
                   su_busy, su_woken, su_tasks>>

\* _run_initial_backfill: the next message is enqueued; after the last one
\* message_queue.join() is called (line 206), which returns at once when no
\* task is unfinished
InitialBackfill ==
    /\ su_pc = "backfill"
    /\ IF su_left > 0
       THEN /\ su_queue' = Append(su_queue, "backfill")
            /\ su_left' = su_left - 1
            /\ su_seen' = su_seen \cup
                   (IF su_handlers THEN {} ELSE {"backfill_before_handlers"})
            /\ UNCHANGED <<su_pc, su_woken>>
       ELSE /\ su_pc' = "join"
            /\ su_woken' = (Unfinished(su_queue, su_busy) = 0)
            /\ UNCHANGED <<su_queue, su_left, su_seen>>
    /\ UNCHANGED <<su_handlers, su_lb_left, su_lb_queued, su_busy, su_tasks,
                   su_late>>

\* run_daemon_mode lines 206-208: the join returns and the start-up look-back
\* is called.  The mutant does not wait for the queue.
StartupJoinedNoWait ==
    /\ su_pc = "join"
    /\ su_pc' = "lookback"
    /\ su_woken' = FALSE
    /\ su_seen' = su_seen \cup
           (IF \E i \in DOMAIN su_queue : su_queue[i] = "backfill"
            THEN {"lookback_before_drained"} ELSE {})
    /\ UNCHANGED <<su_handlers, su_left, su_lb_left, su_lb_queued, su_queue,
                   su_busy, su_tasks, su_late>>

StartupJoined ==
    /\ su_pc = "join"
    /\ su_woken
    /\ su_pc' = "lookback"
    /\ su_woken' = FALSE
    /\ UNCHANGED <<su_handlers, su_left, su_lb_left, su_lb_queued, su_queue,
                   su_busy, su_tasks, su_late, su_seen>>

\* _run_recent_lookback lines 503-519 called at start-up: the messages of the
\* window are enqueued, then the queue is joined when something was enqueued
StartLookback ==
    /\ su_pc = "lookback"
    /\ IF su_lb_left > 0
       THEN /\ su_queue' = Append(su_queue, "lookback")
            /\ su_lb_left' = su_lb_left - 1
            /\ su_lb_queued' = su_lb_queued + 1
            /\ UNCHANGED <<su_pc, su_woken>>
       ELSE /\ su_pc' = IF su_lb_queued > 0 THEN "lookback_join" ELSE "tasks"
            /\ su_woken' = (su_lb_queued > 0 /\ Unfinished(su_queue, su_busy) = 0)
            /\ UNCHANGED <<su_queue, su_lb_left, su_lb_queued>>
    /\ UNCHANGED <<su_handlers, su_left, su_busy, su_tasks, su_late, su_seen>>

StartLookbackJoined ==
    /\ su_pc = "lookback_join"
    /\ su_woken
    /\ su_pc' = "tasks"
    /\ su_woken' = FALSE
    /\ UNCHANGED <<su_handlers, su_left, su_lb_left, su_lb_queued, su_queue,
                   su_busy, su_tasks, su_late, su_seen>>

\* run_daemon_mode lines 210-220: the sweep and the watchdog tasks are
\* created and the daemon is ready
CreateBackgroundTasks ==
    /\ su_pc = "tasks"
    /\ su_tasks' = {"hourly_sweep", "connection_watchdog"}
    /\ su_pc' = "ready"
    /\ UNCHANGED <<su_handlers, su_left, su_lb_left, su_lb_queued, su_queue,
                   su_busy, su_woken, su_late, su_seen>>

\* _worker_loop: a worker takes the next item
StartWorkerTake(w) ==
    /\ su_busy[w] = ""
    /\ su_queue # <<>>
    /\ su_busy' = [su_busy EXCEPT ![w] = Head(su_queue)]
    /\ su_queue' = Tail(su_queue)
    /\ UNCHANGED <<su_pc, su_handlers, su_left, su_lb_left, su_lb_queued,
                   su_woken, su_tasks, su_late, su_seen>>

\* _worker_loop: the item is done; task_done wakes the waiter of join() when
\* no unfinished task is left
StartWorkerDone(w) ==
    /\ su_busy[w] # ""
    /\ su_busy' = [su_busy EXCEPT ![w] = ""]
    /\ su_woken' = IF InJoin(su_pc) /\ Unfinished(su_queue, su_busy') = 0
                   THEN TRUE ELSE su_woken
    /\ UNCHANGED <<su_pc, su_handlers, su_left, su_lb_left, su_lb_queued,
                   su_queue, su_tasks, su_late, su_seen>>

StartDaemonStep ==
    \/ RegisterHandlers
    \/ InitialBackfill
    \/ StartupJoined
    \/ StartLookback
    \/ StartLookbackJoined
    \/ CreateBackgroundTasks

StartWorkerStep ==
    \/ \E w \in PoolWorkers : StartWorkerTake(w)
    \/ \E w \in PoolWorkers : StartWorkerDone(w)

NextStart ==
    /\ \/ StartDaemonStep
       \/ StartWorkerStep
       \/ LiveEvent
    /\ UNCHANGED <<storeVars, ixVars, dmVars, chatVars, searchVars, onceVars, feedVars, batchVars, embedVars, tombVars, loopVars, bkVars, trimVars, rkVars, chunkVars>>

\* the event loop runs every task that can go on
FairStart ==
    /\ WF_vars(StartDaemonStep /\ UNCHANGED <<storeVars, ixVars, dmVars, chatVars, searchVars, onceVars, feedVars, batchVars, embedVars, tombVars, loopVars, bkVars, trimVars, rkVars, chunkVars>>)
    /\ WF_vars(StartWorkerStep /\ UNCHANGED <<storeVars, ixVars, dmVars, chatVars, searchVars, onceVars, feedVars, batchVars, embedVars, tombVars, loopVars, bkVars, trimVars, rkVars, chunkVars>>)

(***************************************************************************)
(* The trimming loop of _assemble_candidate, lines 703-713 of              *)
(* api/app/search.py, one pass per step.                                   *)
(***************************************************************************)
\* the windows the loop starts from: records with text, ascending ids
TrimWindows ==
    {m \in SeqsUpTo([message_id : MessageIds, text : MessageTexts \ {<<>>}], MaxMessages) :
        /\ m # <<>>
        /\ \A i, j \in DOMAIN m : i < j => m[i].message_id < m[j].message_id}

TrimIdle ==
    /\ tr_filtered = <<>>
    /\ tr_seed_id = 0
    /\ tr_max_chars = 0
    /\ tr_pc = "idle"
    /\ tr_drops = 0

InitTrim ==
    /\ tr_filtered \in TrimWindows
    /\ tr_seed_id \in MessageIds
    /\ tr_max_chars \in {4 * t : t \in {1, 2}}
    /\ tr_pc = "loop"
    /\ tr_drops = 0

\* the condition of the while loop, line 707
OverCap(filtered, max_chars) ==
    Len(TextBlock(filtered)) > max_chars /\ Len(filtered) > 1

\* lines 708-713: one pass of the loop
TrimPass ==
    /\ tr_pc = "loop"
    /\ OverCap(tr_filtered, tr_max_chars)
    /\ tr_filtered' = RemoveAt(tr_filtered, DropIndex(tr_filtered, tr_seed_id) + 1)
    /\ tr_drops' = tr_drops + 1
    /\ UNCHANGED <<tr_seed_id, tr_max_chars, tr_pc>>

\* line 707: the loop ends
TrimEnd ==
    /\ tr_pc = "loop"
    /\ ~OverCap(tr_filtered, tr_max_chars)
    /\ tr_pc' = "done"
    /\ UNCHANGED <<tr_filtered, tr_seed_id, tr_max_chars, tr_drops>>

NextTrim ==
    /\ \/ TrimPass
       \/ TrimEnd
    /\ UNCHANGED <<storeVars, ixVars, dmVars, chatVars, searchVars, onceVars, feedVars, batchVars, embedVars, tombVars, loopVars, bkVars, startVars, rkVars, chunkVars>>

(***************************************************************************)
(* VoyageReranker.rerank on any response of the provider, lines 143-212 of *)
(* api/app/search.py.  The indices of a response are Python indices: from  *)
(* 0, a negative one counts from the end of the list.                      *)
(***************************************************************************)
RankCandidates(n) ==
    {r \in [1..n -> [message_id : 1..n, relevance : {1, 2}, score : {0},
                     rerank_score : {NoScore}]] :
        \A i \in 1..n : r[i].message_id = i}

\* the indices a response may name for n candidates: in range, one past the
\* end, negative down to one before the start
AnyIndices(n) == (0 - (n + 1))..n

RankIdle ==
    /\ rk_results = <<>>
    /\ rk_top_n = 0
    /\ rk_answer = NoAnswer
    /\ rk_pc = "idle"
    /\ rk_out = <<>>
    /\ rk_raised = FALSE

InitRank ==
    /\ \E n \in 0..MaxCandidates : rk_results \in RankCandidates(n)
    /\ rk_top_n \in 1..MaxCandidates
    /\ rk_answer \in {[kind |-> "fail", items |-> <<>>]}
                     \cup {[kind |-> "items", items |-> a] :
                              a \in SeqsUpTo(AnyIndices(Len(rk_results)), MaxItems)}
    /\ rk_pc = "call"
    /\ rk_out = <<>>
    /\ rk_raised = FALSE

\* results[idx]: the position in the list (from 1), 0 for an IndexError
ListPosition(idx, n) ==
    IF idx >= 0 THEN (IF idx < n THEN idx + 1 ELSE 0)
    ELSE (IF n + idx >= 0 THEN n + idx + 1 ELSE 0)

\* the loop over the items, lines 183-201.  The state is the positions
\* appended so far, the indices seen and whether results[idx] raised.
RECURSIVE Named(_, _, _, _, _)
Named(items, n, top_n, reranked, seen) ==
    IF items = <<>> THEN [reranked |-> reranked, seen |-> seen, raised |-> FALSE]
    ELSE LET idx == Head(items)
         IN  IF idx >= n
             THEN Named(Tail(items), n, top_n, reranked, seen)
             ELSE IF ListPosition(idx, n) = 0
             THEN [reranked |-> reranked, seen |-> seen \cup {idx}, raised |-> TRUE]
             ELSE LET appended == Append(reranked, ListPosition(idx, n))
                  IN  IF Len(appended) >= top_n
                      THEN [reranked |-> appended, seen |-> seen \cup {idx},
                            raised |-> FALSE]
                      ELSE Named(Tail(items), n, top_n, appended, seen \cup {idx})

\* the loop of lines 203-209: the results whose index was not seen, in the
\* order of the list, while fewer than top_n are taken
RECURSIVE Backfilled(_, _, _, _, _)
Backfilled(idx, n, top_n, reranked, seen) ==
    IF idx >= n \/ Len(reranked) >= top_n THEN reranked
    ELSE IF idx \in seen THEN Backfilled(idx + 1, n, top_n, reranked, seen)
    ELSE Backfilled(idx + 1, n, top_n, Append(reranked, idx + 1), seen)

\* the positions of the list returned at line 211
RerankedPositions(items, n, top_n) ==
    LET named == Named(items, n, top_n, <<>>, {})
    IN  [raised |-> named.raised,
         named |-> named.reranked,
         positions |-> IF named.raised THEN <<>>
                       ELSE FirstN(Backfilled(0, n, top_n, named.reranked, named.seen),
                                   top_n)]

\* rerank with the reranker enabled, a query and an API key, lines 146-212
RerankCall ==
    /\ rk_pc = "call"
    /\ rk_pc' = "done"
    /\ LET n == Len(rk_results)
       IN  IF rk_results = <<>> \/ rk_answer.kind = "fail"
           THEN /\ rk_out' = FirstN(rk_results, rk_top_n)
                /\ rk_raised' = FALSE
           ELSE LET r == RerankedPositions(rk_answer.items, n, rk_top_n)
                    scored == {r.named[i] : i \in DOMAIN r.named}
                IN  /\ rk_raised' = r.raised
                    /\ rk_out' = [i \in DOMAIN r.positions |->
                                     IF r.positions[i] \in scored
                                     THEN ApiScored(rk_results[r.positions[i]])
                                     ELSE rk_results[r.positions[i]]]
    /\ UNCHANGED <<rk_results, rk_top_n, rk_answer>>

NextRank ==
    /\ RerankCall
    /\ UNCHANGED <<storeVars, ixVars, dmVars, chatVars, searchVars, onceVars, feedVars, batchVars, embedVars, tombVars, loopVars, bkVars, startVars, trimVars, chunkVars>>

(***************************************************************************)
(* TextChunker.chunk_text and _clean_chunk_boundary (indexer/chunker.py).  *)
(* A text is the sequence of its tokens and a token the sequence of its    *)
(* characters: encode yields the tokens, decode concatenates them.  One    *)
(* pass of the while loop per step.                                        *)
(***************************************************************************)
\* the tokens texts are made of: a long word with its leading space, a full
\* stop, a short word with its leading space
Vocabulary ==
    {<<" ", "a", "a", "a", "a", "a", "a", "a", "a", "a", "a", "a", "a", "a">>,
     <<".">>, <<" ", "b">>}

\* the headers offered to the model
Headers == {<<>>, <<<<"h">>>>}

\* the token of "\n\n"
NewLines == <<"\n", "\n">>

\* self.encoder.decode
RECURSIVE Decode(_)
Decode(tokens) ==
    IF tokens = <<>> THEN <<>> ELSE Head(tokens) \o Decode(Tail(tokens))

\* str.strip() leaves nothing
Blank(text) == \A i \in DOMAIN text : text[i] \in {" ", "\n"}

\* seq[start:end] for start >= 0, end of either sign
PySlice(seq, start, end) ==
    LET stop == IF end < 0
                THEN (IF Len(seq) + end < 0 THEN 0 ELSE Len(seq) + end)
                ELSE (IF end > Len(seq) THEN Len(seq) ELSE end)
    IN  SubSeq(seq, start + 1, stop)

\* delimiter in text
Contains(text, delimiter) ==
    \E p \in 0..(Len(text) - Len(delimiter)) :
        SubSeq(text, p + 1, p + Len(delimiter)) = delimiter

\* text.rfind(delimiter), for a delimiter that occurs in text
RFind(text, delimiter) ==
    CHOOSE p \in 0..(Len(text) - Len(delimiter)) :
        /\ SubSeq(text, p + 1, p + Len(delimiter)) = delimiter
        /\ \A q \in (p + 1)..(Len(text) - Len(delimiter)) :
              SubSeq(text, q + 1, q + Len(delimiter)) # delimiter

\* the grave accent (U+0060) and the code fence made of three of them
GraveAccent == "grave"

CodeFence == <<GraveAccent, GraveAccent, GraveAccent>>

SentenceDelimiters ==
    << <<".", " ">>, <<"!", " ">>, <<"?", " ">>, <<"\n", "\n">> >>

\* the delimiter occurs and its last occurrence is past `tenths` of the text
Late(text, delimiter, tenths) ==
    /\ Contains(text, delimiter)
    /\ 10 * RFind(text, delimiter) > tenths * Len(text)

\* TextChunker._clean_chunk_boundary
CleanChunkBoundary(text) ==
    LET hits == {k \in DOMAIN SentenceDelimiters : Late(text, SentenceDelimiters[k], 8)}
    IN  IF hits # {}
        THEN LET k == CHOOSE h \in hits : \A g \in hits : h <= g
                 d == SentenceDelimiters[k]
             IN  SubSeq(text, 1, RFind(text, d) + Len(d))
        ELSE IF Late(text, <<" ">>, 9)
        THEN SubSeq(text, 1, RFind(text, <<" ">>))
        ELSE IF Late(text, CodeFence, 7)
        THEN SubSeq(text, 1, RFind(text, CodeFence))
        ELSE text

\* self.encoder.encode(header + "\n\n") if header else []
HeaderTokens(header) == IF header = <<>> THEN <<>> ELSE Append(header, NewLines)

\* f"{header}\n\n{chunk_text}" if header else chunk_text
WithHeader(header, chunk_text) ==
    IF header = <<>> THEN chunk_text ELSE Decode(header) \o NewLines \o chunk_text

ChunkIdle ==
    /\ ck_text = <<>>
    /\ ck_header = <<>>
    /\ ck_target = 0
    /\ ck_overlap = 0
    /\ ck_pc = "idle"
    /\ ck_start = 0
    /\ ck_chunks = <<>>
    /\ ck_starts = <<>>
    /\ ck_passes = 0

InitChunk ==
    /\ ck_text \in SeqsUpTo(Vocabulary, MaxTokens)
    /\ ck_header \in Headers
    /\ ck_target \in 1..MaxTarget
    /\ ck_overlap \in 0..MaxOverlap
    /\ ck_pc = "call"
    /\ ck_start = 0
    /\ ck_chunks = <<>>
    /\ ck_starts = <<>>
    /\ ck_passes = 0

\* lines 34-50: a blank text has no chunks, a short one is one chunk
ChunkTextCall ==
    /\ ck_pc = "call"
    /\ LET text == Decode(ck_text)
       IN  IF Blank(text)
           THEN /\ ck_pc' = "done"
                /\ UNCHANGED <<ck_chunks, ck_starts>>
           \* self.count_tokens(header + "\n\n" + text) <= self.target_tokens
           ELSE IF Len(ck_header) + 1 + Len(ck_text) <= ck_target
           THEN /\ ck_chunks' = <<[full_text |-> WithHeader(ck_header, text),
                                   bm25_text |-> text]>>
                /\ ck_starts' = <<0>>
                /\ ck_pc' = "done"
           ELSE /\ ck_pc' = "loop"
                /\ UNCHANGED <<ck_chunks, ck_starts>>
    /\ UNCHANGED <<ck_text, ck_header, ck_target, ck_overlap, ck_start, ck_passes>>

\* lines 52-76: one pass of the while loop
ChunkTextPass ==
    /\ ck_pc = "loop"
    /\ ck_start < Len(ck_text)
    /\ LET available_tokens == ck_target - Len(HeaderTokens(ck_header))
           end == IF ck_start + available_tokens < Len(ck_text)
                  THEN ck_start + available_tokens ELSE Len(ck_text)
           decoded == Decode(PySlice(ck_text, ck_start, end))
           chunk_text == IF end < Len(ck_text)
                         THEN CleanChunkBoundary(decoded) ELSE decoded
           stride == ck_start + available_tokens - ck_overlap
       IN  /\ ck_chunks' = Append(ck_chunks,
                                  [full_text |-> WithHeader(ck_header, chunk_text),
                                   bm25_text |-> chunk_text])
           /\ ck_starts' = Append(ck_starts, ck_start)
           /\ IF end >= Len(ck_text)
              THEN /\ ck_pc' = "done"
                   /\ UNCHANGED ck_start
              ELSE /\ ck_start' = IF stride > ck_start + 1 THEN stride
                                  ELSE ck_start + 1
                   /\ UNCHANGED ck_pc
    /\ ck_passes' = ck_passes + 1
    /\ UNCHANGED <<ck_text, ck_header, ck_target, ck_overlap>>

\* line 52: start has reached the end of the tokens
ChunkTextEnd ==
    /\ ck_pc = "loop"
    /\ ck_start >= Len(ck_text)
    /\ ck_pc' = "done"
    /\ UNCHANGED <<ck_text, ck_header, ck_target, ck_overlap, ck_start,
                   ck_chunks, ck_starts, ck_passes>>

ChunkStep ==
    \/ ChunkTextCall
    \/ ChunkTextPass
    \/ ChunkTextEnd

NextChunk ==
    /\ ChunkStep
    /\ UNCHANGED <<storeVars, ixVars, dmVars, chatVars, searchVars, onceVars, feedVars, batchVars, embedVars, tombVars, loopVars, bkVars, startVars, trimVars, rkVars>>

\* chunk_text is a plain function: once called it runs to its return
FairChunk == WF_vars(NextChunk)

InitCompIdle == OnceIdle /\ FeedIdle /\ BatchIdle /\ EmbedIdle /\ TombIdle /\ LoopIdle /\ BkIdle /\ StartIdle /\ TrimIdle /\ RankIdle /\ ChunkIdle

InitDaemonSpec ==
    /\ InitStore
    /\ InitIndexer(1, {FALSE}, {0})
    /\ InitDaemon({1, 2}, 1..(LastMsgId + 1), 1..(LastMsgId + 1))
    /\ InitChat({1}) /\ InitCompIdle /\ InitSearchIdle

SpecDaemon == InitDaemonSpec /\ [][NextDaemon]_vars

\* concurrent callers of _run_recent_lookback and one worker
NextLookback ==
    /\ \/ \E c \in Callers : LookbackStep(c, MaxLookbacks)
       \/ (\E w \in Workers : WorkerStep(w)) /\ UNCHANGED lbVars
    /\ UNCHANGED <<chatVars, compVars, searchVars, storeVars, dmCfgVars, dm_pc, bf, sw, sweeps, stops>>

InitLookback ==
    /\ InitStore
    /\ InitIndexer(1, {FALSE}, {0})
    /\ InitDaemon({1}, 1..(LastMsgId + 1), {1})
    /\ InitChat({1}) /\ InitCompIdle /\ InitSearchIdle

SpecLookback == InitLookback /\ [][NextLookback]_vars

InitChatSpec ==
    /\ InitStore
    /\ InitIndexer(1, {FALSE}, {0})
    /\ InitDaemon({1}, {1}, {1})
    /\ InitChat({1, 2}) /\ InitCompIdle /\ InitSearchIdle

SpecChat == InitChatSpec /\ [][NextChat]_vars

SpecRate == InitChatSpec /\ [][NextRate]_vars

InitDedupeSpec ==
    /\ InitStore
    /\ InitIndexer(1, {FALSE}, {0})
    /\ InitDaemon({1}, {1}, {1})
    /\ InitChat({1}) /\ InitCompIdle
    /\ InitDedupe

SpecDedupe == InitDedupeSpec /\ [][NextDedupe]_vars

\* the settings of a search; the dedupe rules are off unless told otherwise
SearchSettings(gaps, modes, defaults, maxima, seed_limits, rerank_limits) ==
    [message_gap : {0}, time_gap_seconds : gaps, rerank : modes,
     default_limit : defaults, context_max_return : maxima, max_level : {2},
     result_step : {1}, seed_limit : seed_limits, seed_step : {1},
     rerank_limit : rerank_limits, rerank_step : {1}]

SearchRequests(limits, levels) == [limit : limits, expansion_level : levels]

InitSearchSpec ==
    /\ InitStore
    /\ InitIndexer(1, {FALSE}, {0})
    /\ InitDaemon({1}, {1}, {1})
    /\ InitChat({1}) /\ InitCompIdle
    /\ InitSearchCall(SeqsUpTo(SeedHits({"c1"}, {1, 2, 4}, SeedDates, SeedScores, {0}),
                               MaxSeeds),
                      SearchSettings(GapSettings, {"off"}, {3}, {3}, {3}, {1}),
                      SearchRequests({1, 2}, {0}))

SpecSearch == InitSearchSpec /\ [][NextSearch]_vars

InitRerankSpec ==
    /\ InitStore
    /\ InitIndexer(1, {FALSE}, {0})
    /\ InitDaemon({1}, {1}, {1})
    /\ InitChat({1}) /\ InitCompIdle
    /\ InitSearchCall(SeqsUpTo(SeedHits({"c1"}, {1}, {1000, 2000}, SeedScores, {0, 1, 2}),
                               MaxSeeds),
                      SearchSettings({0}, {"stub", "api"}, {3}, {3}, {3}, {1, 2}),
                      SearchRequests({1, 2}, {0}))

SpecRerank == InitRerankSpec /\ [][NextRerank]_vars

\* any limit and expansion level of the request, under small search settings
InitBroadenSpec ==
    /\ InitStore
    /\ InitIndexer(1, {FALSE}, {0})
    /\ InitDaemon({1}, {1}, {1})
    /\ InitChat({1}) /\ InitCompIdle
    /\ InitSearchCall(SeqsUpTo(SeedHits({"c1"}, {1}, {NoDate}, {1}, {0}), MaxSeeds),
                      SearchSettings({0}, {"off", "stub"}, {1, 2}, {1, 2}, {1, 2}, {1}),
                      SearchRequests({1, 2, 3}, -1..3))

SpecBroaden == InitBroadenSpec /\ [][NextRerank]_vars

InitAssembleSpec ==
    /\ InitStore
    /\ InitIndexer(1, {FALSE}, {0})
    /\ InitDaemon({1}, {1}, {1})
    /\ InitChat({1}) /\ InitCompIdle
    /\ SearchIdle
    /\ InitAssemble

SpecAssemble == InitAssembleSpec /\ [][NextAssemble]_vars

InitBuildSpec ==
    /\ InitStore
    /\ InitIndexer(1, {FALSE}, {0})
    /\ InitDaemon({1}, {1}, {1})
    /\ InitChat({1}) /\ InitCompIdle
    /\ SearchIdle
    /\ InitBuild

SpecBuild == InitBuildSpec /\ [][NextBuild]_vars

InitSeq ==
    InitStore /\ InitIndexer(1, BOOLEAN, BudgetChoices) /\ InitDaemon({1}, {1}, {1}) /\ InitChat({1}) /\ InitCompIdle /\ InitSearchIdle

\* one worker, any dry_run and budget setting
NextSeq == ProcStep(MaxEnqueues, MaxEdits)

SpecSeq == InitSeq /\ [][NextSeq]_vars

\* the indexer has ended and is started again with --dry-run, over the
\* tables and the index the earlier run has left
RestartDryRun ==
    /\ ~dry_run
    /\ queue = <<>>
    /\ \A w \in Workers : wk[w].pc = "idle"
    /\ dry_run' = TRUE
    /\ wk_last' = [w \in Workers |-> "none"]
    /\ call_pre' = [w \in Workers |-> NoPre]
    /\ call_est' = [w \in Workers |-> 0]
    /\ call_ret' = [w \in Workers |-> "none"]
    /\ call_metrics' = [w \in Workers |-> NoIncrements]
    /\ UNCHANGED <<budget, nworkers, tgVars, dbVars, queue, enqueued, wk,
                   api_calls, cache_writes, last_done>>
    /\ UNCHANGED <<chatVars, compVars, searchVars, storeVars, dmVars>>

\* one worker: a run that indexes, then a dry run
NextDry ==
    \/ ProcStep(MaxEnqueues, MaxEdits)
    \/ RestartDryRun

InitDry == InitStore /\ InitIndexer(1, {FALSE}, {0}) /\ InitDaemon({1}, {1}, {1}) /\ InitChat({1}) /\ InitCompIdle /\ InitSearchIdle

SpecDry == InitDry /\ [][NextDry]_vars

InitProc == InitStore /\ InitIndexer(2, {FALSE}, {0}) /\ InitDaemon({1}, {1}, {1}) /\ InitChat({1}) /\ InitCompIdle /\ InitSearchIdle

\* two workers
NextProc == ProcStep(MaxEnqueuesConc, MaxEditsConc)

SpecProc == InitProc /\ [][NextProc]_vars

Init == InitStore /\ InitIndexer(1, {FALSE}, {0}) /\ InitDaemon({1}, {1}, {1}) /\ InitChat({1}) /\ InitCompIdle /\ InitSearchIdle

\* update_chat calls issued one after the other
NextStoreSeq == StoreStep({1})

SpecStoreSeq == Init /\ [][NextStoreSeq]_vars

\* update_chat calls issued by concurrent tasks
NextStore == StoreStep(Tasks)

SpecStore == Init /\ [][NextStore]_vars

(***************************************************************************)
(* Claims about BackfillStateStore.                                        *)
(***************************************************************************)
StoreIdle == \A t \in Tasks : st_pc[t] = "idle"

\* C2: after any sequence of update_chat calls the in-memory and the on-disk
\* last_message_id of every chat equal the greatest id ever passed for the
\* chat, and a call whose id is <= the stored one changes nothing, neither
\* in memory nor on disk.
C2_MonotonicCheckpoint ==
    /\ [](StoreIdle =>
            /\ DOMAIN disk = DOMAIN max_passed
            /\ \A c \in DOMAIN max_passed :
                  /\ disk[c].last_message_id = max_passed[c]
                  /\ bs_loaded => /\ c \in DOMAIN bs_state
                                  /\ bs_state[c].last_message_id = max_passed[c])
    /\ [][\A t \in Tasks :
            (/\ st_pc[t] = "lock"
             /\ st_pc'[t] # "lock"
             /\ st_arg[t][1] \in DOMAIN bs_state
             /\ bs_state[st_arg[t][1]].last_message_id >= st_arg[t][2])
            => (bs_state' = bs_state /\ disk' = disk /\ st_pc'[t] = "idle")]_vars

\* a call with a lower id than the persisted one has returned
C2_Witness ==
    /\ StoreIdle
    /\ bs_loaded
    /\ calls >= 2
    /\ st_arg[1][1] \in DOMAIN disk
    /\ disk[st_arg[1][1]].last_message_id > st_arg[1][2]
    /\ bs_state[st_arg[1][1]].last_message_id = disk[st_arg[1][1]].last_message_id

\* C3: under any interleaving of concurrent update_chat calls, also calls
\* racing with the first lazy load() of an existing file, the
\* last_message_id written to disk for a chat never decreases and is never
\* lower than the value the file held at startup.
C3_DiskNeverDecreases ==
    /\ [](\A c \in DOMAIN start_disk :
            c \in DOMAIN disk /\ disk[c].last_message_id >= start_disk[c].last_message_id)
    /\ [][\A c \in DOMAIN disk :
            c \in DOMAIN disk' /\ disk'[c].last_message_id >= disk[c].last_message_id]_vars

(***************************************************************************)
(* Claims about process_message and embed_texts.                           *)
(***************************************************************************)
\* C4: processing a message again with unchanged text and unchanged
\* edit_date leaves the set of chunk_ids and their text_hashes in the chunk
\* store identical and issues no embedding API call.
C4_IdempotentIndexing ==
    [][\A w \in Workers :
        (wk[w].pc # "idle" /\ wk'[w].pc = "idle" /\ call_pre'[w].again)
        => /\ StoredPairs(chunks', wk[w].item.chat_id, wk[w].item.message_id)
                = call_pre'[w].rows
           /\ api_calls' = call_pre'[w].api]_vars

RowsUnique(tbl) ==
    \A i, j \in DOMAIN tbl : tbl[i].chunk_id = tbl[j].chunk_id => i = j

DocsUnique(idx) ==
    \A i, j \in DOMAIN idx : idx[i].id = idx[j].id => i = j

\* C5: when several work items for the same message are processed by
\* different workers in any interleaving, the chunk store and the search
\* index hold exactly one record / document per chunk_id.
C5_NoDuplicates ==
    /\ RowsUnique(chunks)
    /\ DocsUnique(index)
    /\ \A k \in DOMAIN last_done :
          Cardinality({i \in DOMAIN chunks :
                          chunks[i].chunk_id = ChunkId(k[1], k[2], 0)}) = 1

\* two workers are feeding documents of the same message at the same time
C5_Witness ==
    /\ wk[1].pc = "feed"
    /\ wk[2].pc = "feed"
    /\ wk[1].item.chat_id = wk[2].item.chat_id
    /\ wk[1].item.message_id = wk[2].item.message_id
    /\ Len(index) >= 1

\* C6: under any interleaving of workers holding an older and a newer edit
\* of the same message, a chunk (document) stored with the newer edit_date
\* is never overwritten by the version with the older edit_date.
C6_NewerEditKept ==
    [][/\ \A i \in DOMAIN chunks : \A j \in DOMAIN chunks' :
             chunks'[j].chunk_id = chunks[i].chunk_id
             => chunks'[j].edit_date >= chunks[i].edit_date
       /\ \A i \in DOMAIN index : \A j \in DOMAIN index' :
             index'[j].id = index[i].id
             => index'[j].edit_date >= index[i].edit_date]_vars

CallEnded(w) == call_ret[w] \in {"returned", "budget", "error"}

\* C8 as claimed: every call of embed_texts raises the budget error if and
\* only if daily_budget_usd > 0 and the estimated cost >= daily_budget_usd.
C8_BudgetGateEveryCall ==
    \A w \in Workers :
        CallEnded(w) =>
            (call_ret[w] = "budget" <=> (budget > 0 /\ call_est[w] >= budget))

\* C8 amended: every call of embed_texts that is not a dry run raises the
\* budget error if and only if daily_budget_usd > 0 and the estimated cost
\* of the call is >= daily_budget_usd; a dry-run call never raises it.
C8_BudgetGate ==
    \A w \in Workers :
        CallEnded(w) =>
            IF dry_run
            THEN call_ret[w] # "budget"
            ELSE call_ret[w] = "budget" <=> (budget > 0 /\ call_est[w] >= budget)

\* a call whose estimated cost equals the budget has raised
C8_Witness ==
    \E w \in Workers :
        call_ret[w] = "budget" /\ ~dry_run /\ call_est[w] = budget

\* C9: whenever embed_texts raises the budget error, no embedding API call
\* was made and no entry was written to the embedding cache during the call.
C9_BudgetGateNoEffects ==
    \A w \in Workers :
        call_ret[w] = "budget" =>
            (api_calls = call_pre[w].api /\ cache_writes = call_pre[w].writes)

\* a call has raised after an earlier call had filled the cache
C9_Witness ==
    \E w \in Workers :
        call_ret[w] = "budget" /\ wk_last[w] = "budget_exceeded" /\ cache_writes > 0

(***************************************************************************)
(* Claims about the daemon.                                                *)
(***************************************************************************)
\* chunks stored and documents fed: the first chunk of the message is in
\* the chunk store and in the search index
FullyProcessed(k) ==
    /\ \E i \in DOMAIN chunks : chunks[i].chunk_id = ChunkId(k[1], k[2], 0)
    /\ \E j \in DOMAIN index : index[j].id = ChunkId(k[1], k[2], 0)

\* the restarted daemon is ready and has nothing left to do
DaemonQuiet ==
    /\ dm_pc = "ready"
    /\ QueueJoined
    /\ sw.pc = "idle"
    /\ \A c \in Callers : lb[c].pc = "idle"

InLookback(c) == lb[c].pc \in {"scan", "join"}

\* C7: for any set of concurrent calls of _run_recent_lookback, no two of
\* them are scanning chats / holding the look-back lock at the same time.
C7_OneLookback ==
    /\ \A c, d \in Callers : (InLookback(c) /\ InLookback(d)) => c = d
    /\ \A c \in Callers : InLookback(c) => lb_lock = c

\* a call was skipped while another caller is scanning with the lock held
C7_Witness ==
    \E c \in Callers :
        /\ lb[c].pc = "scan"
        /\ lb[c].queued > 0
        /\ lb_lock = c
        /\ lb_calls >= 2
        /\ \A d \in Callers \ {c} : lb[d].pc = "idle"

(***************************************************************************)
(* Claims about chat_stream.                                               *)
(***************************************************************************)
Rep(type, n) == [i \in 1..n |-> type]

Count(ev, types) == Cardinality({i \in DOMAIN ev : ev[i] \in types})

\* the stream is over with an end or error chunk as its only terminal chunk
EndsOnce(ev) ==
    /\ ev # <<>>
    /\ ev[Len(ev)] \in {"end", "error"}
    /\ Count(ev, {"end", "error"}) = 1

\* reformulate? search (start content+ citations end | content end)
ShapeClaimed(ev) ==
    \E r \in 0..1 :
        \/ \E c \in 1..Len(ev) :
              ev = Rep("reformulate", r) \o <<"search", "start">>
                   \o Rep("content", c) \o <<"citations", "end">>
        \/ ev = Rep("reformulate", r) \o <<"search", "content", "end">>

\* (reformulate reformulate?)? search search
\*     (start content* citations end | content end)
ShapeEmitted(ev) ==
    \E r \in 0..2 :
        \/ \E c \in 0..Len(ev) :
              ev = Rep("reformulate", r) \o <<"search", "search", "start">>
                   \o Rep("content", c) \o <<"citations", "end">>
        \/ ev = Rep("reformulate", r) \o <<"search", "search", "content", "end">>

\* the request was served to its end (not refused, failed or dropped)
ChatSucceeded == cs_pc = "done" /\ events # <<>> /\ events[Len(events)] = "end"

TerminalLast(ev) ==
    /\ Count(ev, {"end", "error"}) <= 1
    /\ \A i \in DOMAIN ev : ev[i] \in {"end", "error"} => i = Len(ev)

\* C11 as claimed: whatever stage of chat_stream fails (rate limit,
\* reformulation, search, prompt assembly, LLM call, a mid-stream delta),
\* exactly one error event is emitted and it is the last event; no stream
\* holds both an end and an error event or any event after end.
C11_ErrorTerminatesClaimed ==
    /\ TerminalLast(events)
    /\ (cs_pc = "done" /\ cs_failed # {}) =>
            (Count(events, {"error"}) = 1 /\ events[Len(events)] = "error")

\* C11 amended: when a stage raises into chat_stream (rate-limit refusal,
\* model resolution, getting the search client, prompt assembly, LLM call, a
\* mid-stream delta), exactly one error event is emitted and it is the last
\* event; a failed reformulation call, query embedding or search-engine query
\* is absorbed and emits no error event; no stream holds both an end and an
\* error event or any event after end.
C11_ErrorTerminates ==
    /\ TerminalLast(events)
    /\ (cs_pc = "done" /\ "raised" \in cs_failed) =>
            (Count(events, {"error"}) = 1 /\ events[Len(events)] = "error")
    /\ (cs_pc = "done" /\ "raised" \notin cs_failed) =>
            (Count(events, {"error"}) = 0 /\ events[Len(events)] = "end")

\* the provider failed in the middle of the streamed answer
C11_Witness ==
    /\ cs_pc = "done"
    /\ "raised" \in cs_failed
    /\ Count(events, {"content"}) >= 1
    /\ Count(events, {"start"}) = 1
    /\ events[Len(events)] = "error"

\* times of the accepted requests of a user inside the window (t - 60, t]
RECURSIVE CountWithin(_, _, _)
CountWithin(times, lo, hi) ==
    IF times = <<>> THEN 0
    ELSE (IF Head(times) > lo /\ Head(times) <= hi THEN 1 ELSE 0)
         + CountWithin(Tail(times), lo, hi)

\* C12: for every user and every rolling 60-second window, the number of
\* requests accepted by is_allowed is at most chat_rate_limit_rpm, for any
\* sequence of requests of any users.
C12_RateLimit ==
    \A u \in Users : \A t \in 0..now :
        CountWithin(accepted[u], t - WindowSeconds, t) <= rl_limit

\* a user used up the limit, was accepted again after the window had moved
\* on, while another user was accepted as well
C12_Witness ==
    \E u \in Users :
        /\ Len(accepted[u]) > rl_limit
        /\ CountWithin(accepted[u], now - WindowSeconds, now) = rl_limit
        /\ \E v \in Users \ {u} : Len(accepted[v]) >= 1

(***************************************************************************)
(* Claims about the search API.                                            *)
(***************************************************************************)
\* the rule as stated: an accepted seed of the same chat is close (a gap
\* of 0 is read as the rule being switched off, and a seed without a date
\* as having no date distance)
CloseSameChat(seed, existing, id_gap, time_gap_ms) ==
    /\ seed.chat_id = existing.chat_id
    /\ \/ /\ id_gap # 0
          /\ Abs(seed.message_id - existing.message_id) <= id_gap
       \/ /\ time_gap_ms # 0
          /\ seed.message_date_ms # NoDate
          /\ existing.message_date_ms # NoDate
          /\ Abs(seed.message_date_ms - existing.message_date_ms) <= time_gap_ms

RECURSIVE AcceptedAsStated(_, _, _, _)
AcceptedAsStated(sorted, kept, id_gap, time_gap_ms) ==
    IF sorted = <<>> THEN kept
    ELSE LET seed == Head(sorted)
             close == \E i \in DOMAIN kept :
                          CloseSameChat(seed, kept[i], id_gap, time_gap_ms)
         IN  AcceptedAsStated(Tail(sorted),
                              IF close THEN kept ELSE Append(kept, seed),
                              id_gap, time_gap_ms)

\* C13: scanning the seeds in (score desc, message_date desc) order,
\* _filter_seeds accepts a seed unless an already accepted seed of the same
\* chat has |delta message_id| <= id_gap or |delta message_date_ms| <=
\* time_gap_ms; a seed is never rejected because of an accepted seed of
\* another chat, and of two close seeds the higher-scoring one is kept.
C13_DedupeRule ==
    sr_pc = "filtered" =>
        /\ sr_seeds = AcceptedAsStated(SortedSeeds(sr_hits), <<>>,
                                       IdGap(sr_set.message_gap),
                                       TimeGapMs(sr_set.time_gap_seconds))
        /\ \A i \in DOMAIN sr_hits :
              \/ \E j \in DOMAIN sr_seeds : sr_seeds[j] = sr_hits[i]
              \/ \E j \in DOMAIN sr_seeds :
                     CloseSameChat(sr_hits[i], sr_seeds[j],
                                   IdGap(sr_set.message_gap),
                                   TimeGapMs(sr_set.time_gap_seconds))

\* C14: for any non-empty seed list and any gap settings _filter_seeds
\* returns at least one seed, and the top-ranked seed (highest score, then
\* most recent) is among the seeds returned.
C14_MinimumOne ==
    (sr_pc = "filtered" /\ sr_hits # <<>>) =>
        /\ Len(sr_seeds) >= 1
        /\ \E i \in DOMAIN sr_seeds :
              /\ \E j \in DOMAIN sr_hits : sr_hits[j] = sr_seeds[i]
              /\ \A j \in DOMAIN sr_hits :
                    KeyGE(SeedKey(sr_seeds[i]), SeedKey(sr_hits[j]))

\* two seeds, the lower-ranked one came first and was filtered out
C14_Witness ==
    /\ sr_pc = "filtered"
    /\ Len(sr_hits) = 2
    /\ Len(sr_seeds) = 1
    /\ sr_hits[1].score < sr_hits[2].score
    /\ sr_seeds[1] = sr_hits[2]

Orders(n) == {f \in [1..n -> 1..n] : \A i, j \in 1..n : i # j => f[i] # f[j]}

\* the candidates of the seeds whose expansion gave a result, in seed order
RECURSIVE Expanded(_, _)
Expanded(seeds, outcomes) ==
    IF seeds = <<>> THEN <<>>
    ELSE (IF Head(outcomes) = "ok" THEN <<Head(seeds)>> ELSE <<>>)
         \o Expanded(Tail(seeds), Tail(outcomes))

\* newer first, a missing date last; of equal dates the higher seed score first
DateThenScore(a, b) ==
    \/ OrZero(a.message_date) > OrZero(b.message_date)
    \/ /\ OrZero(a.message_date) = OrZero(b.message_date)
       /\ a.seed_score >= b.seed_score

SameDateAndScore(a, b) == DateThenScore(a, b) /\ DateThenScore(b, a)

C16_ScoreOrder ==
    (sr_pc = "done" /\ sr_set.rerank = "off") =>
        \A i, j \in DOMAIN sr_out : i < j =>
            \/ sr_out[i].seed_score > sr_out[j].seed_score
            \/ /\ sr_out[i].seed_score = sr_out[j].seed_score
               /\ OrZero(sr_out[i].message_date) >= OrZero(sr_out[j].message_date)

\* C20: when the expansion of a seed raises, only the candidate of that seed
\* is dropped: the search does not raise and returns the candidates of the
\* other seeds, in the order they would have without the failing seed.
C20_ExpansionIsolation ==
    sr_expanded # <<>> =>
        /\ sr_pc # "raised"
        /\ (sr_pc = "done" /\ sr_set.rerank = "off") =>
              LET others == Expanded(sr_seeds, sr_expanded)
                  alone == SortedCandidates([i \in DOMAIN others |->
                                                BuildCandidate(others[i])])
              IN  sr_out = SubSeq(alone, 1, Min(Len(alone), sr_budget.final_limit))

\* the expansion of the first of two seeds raised, the second is returned
C20_Witness ==
    /\ sr_pc = "done"
    /\ Len(sr_seeds) = 2
    /\ sr_expanded = <<"raise", "ok">>
    /\ Len(sr_out) = 1
    /\ sr_out[1].message_id = sr_seeds[2].message_id
    /\ sr_seeds[1].message_id # sr_seeds[2].message_id

\* the candidates handed to the reranker
Submitted == SubSeq(sr_cands, 1, Min(Len(sr_cands), sr_budget.rerank_cap))

\* a returned result is this candidate, whatever its scores have become
SameCandidate(result, cand) ==
    /\ result.chat_id = cand.chat_id
    /\ result.message_id = cand.message_id
    /\ result.message_date = cand.message_date
    /\ result.seed_score = cand.seed_score
    /\ result.retrieval_score = cand.retrieval_score
    /\ result.relevance = cand.relevance

Reranked == sr_pc = "done" /\ sr_set.rerank # "off" /\ sr_cands # <<>>

BudgetsSet == sr_budget.final_limit # 0

AtLevel(L) == [sr_req EXCEPT !.expansion_level = L]

\* the three budgets do not shrink when the expansion level grows
BudgetsMonotonic ==
    \A L1, L2 \in 0..sr_set.max_level : L1 <= L2 =>
        /\ FinalLimit(AtLevel(L1), sr_set) <= FinalLimit(AtLevel(L2), sr_set)
        /\ SeedLimit(AtLevel(L1), sr_set) <= SeedLimit(AtLevel(L2), sr_set)
        /\ RerankCap(AtLevel(L1), sr_set) <= RerankCap(AtLevel(L2), sr_set)

\* seed limit and rerank cap of the call, given its final limit
SeedAndRerankBudgets ==
    LET L == sr_req.expansion_level
    IN  /\ sr_budget.seed_limit =
              Max(sr_budget.final_limit, sr_set.seed_limit + L * sr_set.seed_step)
        /\ sr_budget.rerank_cap # 0 =>
              sr_budget.rerank_cap =
                  Max(sr_budget.final_limit, sr_set.rerank_limit + L * sr_set.rerank_step)
        /\ (sr_pc = "done" /\ sr_set.rerank # "off" /\ sr_cands # <<>>) =>
              sr_budget.rerank_cap # 0

\* C19 as claimed: for every request with limit l and expansion level L in
\* [0, max_level] the final result limit is min(l + L*result_step,
\* context_max_return), the seed limit is seed_limit + L*seed_step and the
\* rerank cap is rerank_candidate_limit + L*rerank_step (each at least the
\* final limit); the three are non-decreasing in L and the number of
\* returned results never exceeds context_max_return.
C19_BroadenBudgetsClaimed ==
    /\ BudgetsSet =>
          /\ sr_budget.final_limit =
                Min(sr_req.limit + sr_req.expansion_level * sr_set.result_step,
                    sr_set.context_max_return)
          /\ SeedAndRerankBudgets
    /\ BudgetsMonotonic
    /\ Len(sr_out) <= sr_set.context_max_return

\* C19 amended: for every request with limit l >= 1 and expansion level L
\* in [0, max_level], with context_max_return >= 1, the final result limit
\* is min(l + L*result_step, context_max_return) when l equals
\* search_default_limit and min(l, context_max_return) for any other l; the
\* seed limit is the greater of the final limit and seed_limit + L*seed_step,
\* the rerank cap (computed when rerank is enabled) the greater of the final
\* limit and rerank_candidate_limit + L*rerank_step; the three are
\* non-decreasing in L, and the number of returned results exceeds neither
\* the final limit nor context_max_return.
C19_BroadenBudgets ==
    /\ BudgetsSet =>
          /\ sr_budget.final_limit =
                IF sr_req.limit = sr_set.default_limit
                THEN Min(sr_req.limit + sr_req.expansion_level * sr_set.result_step,
                         sr_set.context_max_return)
                ELSE Min(sr_req.limit, sr_set.context_max_return)
          /\ SeedAndRerankBudgets
    /\ BudgetsMonotonic
    /\ Len(sr_out) <= sr_budget.final_limit
    /\ Len(sr_out) <= sr_set.context_max_return

\* a broadened request of the default limit returns more results than its
\* limit, as many as the final limit allows
C19_Witness ==
    /\ sr_pc = "done"
    /\ sr_req.expansion_level > 0
    /\ sr_req.limit = sr_set.default_limit
    /\ sr_budget.final_limit > sr_req.limit
    /\ Len(sr_out) = sr_budget.final_limit
    /\ Len(sr_out) = sr_set.context_max_return

StartsWith(text, prefix) ==
    Len(prefix) <= Len(text) /\ SubSeq(text, 1, Len(prefix)) = prefix

\* text.splitlines() of a non-empty text
RECURSIVE SplitLines(_, _)
SplitLines(text, line) ==
    IF text = <<>> THEN <<line>>
    ELSE IF Head(text) = "\n" THEN <<line>> \o SplitLines(Tail(text), <<>>)
    ELSE SplitLines(Tail(text), Append(line, Head(text)))

\* the line of the seed's message in the window: the text of the first
\* fetched record of the message that has text; the seed's own text when no
\* record of the message was fetched; none when it was fetched without text
SeedMessageLine ==
    LET fetched == {i \in DOMAIN as_msgs : as_msgs[i].message_id = as_seed.message_id}
        with_text == {i \in fetched : as_msgs[i].text # <<>>}
    IN  IF fetched = {} THEN as_seed.text
        ELSE IF with_text = {} THEN <<>>
        ELSE as_msgs[CHOOSE i \in with_text : \A j \in with_text : i <= j].text

InitOnceSpec ==
    /\ InitStore
    /\ InitIndexer(1, {FALSE}, {0})
    /\ InitDaemon({1}, {1}, {1})
    /\ InitChat({1})
    /\ InitSearchIdle
    /\ ChunkIdle
    /\ RankIdle
    /\ TrimIdle
    /\ StartIdle
    /\ BkIdle
    /\ LoopIdle
    /\ TombIdle
    /\ EmbedIdle
    /\ BatchIdle
    /\ FeedIdle
    /\ InitOnce(0..3)

SpecOnce == InitOnceSpec /\ [][NextOnce]_vars

\* the cap of a limited one-shot run
CapRespected ==
    oc_limit # 0 =>
        /\ Cardinality(oc_processed) <= oc_limit
        /\ \A i \in DOMAIN oc_asked :
               /\ oc_asked[i].done_before < oc_limit
               /\ oc_asked[i].limit <= oc_limit - oc_asked[i].done_before

\* every message with text of every chat has been processed
AllProcessed ==
    \A c \in DOMAIN OnceChats : \A i \in DOMAIN oc_hist[OnceChats[c]] :
        oc_hist[OnceChats[c]][i] = "text" => <<c, i>> \in oc_processed

\* C22: in one-shot mode with limit_messages = M the number of messages
\* processed over all chats is at most M, each chat is asked for at most the
\* remaining budget and no chat is started once the budget is used up; with
\* no limit, a run that returns has processed every non-empty message of
\* every chat.
C22_GlobalCap ==
    /\ CapRespected
    /\ (oc_limit = 0 /\ oc_pc = "done") => AllProcessed

InitFeedSpec ==
    /\ InitStore
    /\ InitIndexer(1, {FALSE}, {0})
    /\ InitDaemon({1}, {1}, {1})
    /\ InitChat({1})
    /\ InitSearchIdle
    /\ ChunkIdle
    /\ RankIdle
    /\ TrimIdle
    /\ StartIdle
    /\ BkIdle
    /\ LoopIdle
    /\ TombIdle
    /\ EmbedIdle
    /\ BatchIdle
    /\ OnceIdle
    /\ InitFeed

SpecFeed == InitFeedSpec /\ [][NextFeed]_vars

\* C23: feed_document makes at most 3 POST attempts and stops at the first
\* answer 200 or 201, returning True exactly then; a call that returned has
\* added 1 to exactly one of vespa_feed_success and vespa_feed_failures, and
\* to vespa_feed_retries 1 for each failed attempt that another attempt
\* followed (2 for a permanent failure), whether the attempt raised or was
\* answered with another status.
C23_FeedRetries ==
    /\ Len(fd_log) <= 3
    /\ \A i \in DOMAIN fd_log : fd_log[i] \in {"200", "201"} => i = Len(fd_log)
    /\ fd_pc = "returned" =>
          LET good == fd_log[Len(fd_log)] \in {"200", "201"} IN
          /\ fd_ret = IF good THEN "True" ELSE "False"
          /\ fd_metrics.success - fd_before.success = IF good THEN 1 ELSE 0
          /\ fd_metrics.failures - fd_before.failures = IF good THEN 0 ELSE 1
          /\ fd_metrics.retries - fd_before.retries = Len(fd_log) - 1
          /\ ~good => Len(fd_log) = 3

\* the second call failed for good, on an exception, a 503 and a 400, after
\* a first call that succeeded at its second attempt with a 201
C23_Witness ==
    /\ fd_pc = "returned"
    /\ fd_calls = 2
    /\ fd_ret = "False"
    /\ fd_log = <<"raise", "503", "400">>
    /\ fd_metrics = [success |-> 1, retries |-> 3, failures |-> 1]

InitBatchSpec ==
    /\ InitStore
    /\ InitIndexer(1, {FALSE}, {0})
    /\ InitDaemon({1}, {1}, {1})
    /\ InitChat({1})
    /\ InitSearchIdle
    /\ ChunkIdle
    /\ RankIdle
    /\ TrimIdle
    /\ StartIdle
    /\ BkIdle
    /\ LoopIdle
    /\ TombIdle
    /\ EmbedIdle
    /\ OnceIdle
    /\ FeedIdle
    /\ InitBatch

SpecBatch == InitBatchSpec /\ [][NextBatch]_vars

\* the API calls of the log, in order
Creates(log) == SelectSeq(log, LAMBDA e : e[1] = "create")

\* C24: for each batch the embedding API is called at most 3 times; the
\* batch returns at the first successful call; after the failed attempt
\* number k (k = 1, 2; the loop variable attempt is k - 1) it waits
\* base_ms * 2^(k-1) milliseconds before attempt k + 1; after the third
\* failure it re-raises the provider's error without a further wait.
C24_EmbedRetry ==
    /\ Len(Creates(eb_log)) <= 3
    /\ \A i \in DOMAIN eb_log :
          /\ (eb_log[i][1] = "create" /\ eb_log[i][2] = "ok") =>
                 (i = Len(eb_log) /\ eb_ret = "results")
          /\ (eb_log[i][1] = "create" /\ eb_log[i][2] # "ok"
              /\ Len(Creates(SubSeq(eb_log, 1, i))) < 3) =>
                 /\ i < Len(eb_log)
                 /\ eb_log[i + 1] = <<"sleep", "",
                        eb_base * 2^(Len(Creates(SubSeq(eb_log, 1, i))) - 1)>>
          /\ eb_log[i][1] = "sleep" =>
                 (i > 1 /\ eb_log[i - 1][1] = "create" /\ eb_log[i - 1][2] # "ok")
    /\ eb_pc = "ended" =>
          LET last == eb_log[Len(eb_log)] IN
          /\ last[1] = "create"
          /\ eb_ret = IF last[2] = "ok" THEN "results" ELSE last[2]
          /\ last[2] # "ok" => Len(Creates(eb_log)) = 3

\* the batch was given up after three failed calls, with waits of 500 and
\* 1000 milliseconds between them, and the last error was raised
C24_Witness ==
    /\ eb_pc = "ended"
    /\ eb_base = 500
    /\ eb_log = <<<<"create", "timeout", 0>>, <<"sleep", "", 500>>,
                  <<"create", "timeout", 0>>, <<"sleep", "", 1000>>,
                  <<"create", "rate_limit", 0>>>>
    /\ eb_ret = "rate_limit"

InitEmbedSpec ==
    /\ InitStore
    /\ InitIndexer(1, {FALSE}, {0})
    /\ InitDaemon({1}, {1}, {1})
    /\ InitChat({1})
    /\ InitSearchIdle
    /\ ChunkIdle
    /\ RankIdle
    /\ TrimIdle
    /\ StartIdle
    /\ BkIdle
    /\ LoopIdle
    /\ TombIdle
    /\ OnceIdle
    /\ FeedIdle
    /\ BatchIdle
    /\ InitEmbed

SpecEmbed == InitEmbedSpec /\ [][NextEmbed]_vars

\* how often x occurs in a sequence
Occurrences(x, seq) == Cardinality({i \in DOMAIN seq : seq[i] = x})

\* the texts of the payload of task b
Payload(b) == [i \in DOMAIN et_tasks[b].batch |-> et_tasks[b].batch[i][1]]

\* how often a text went to the API: in all calls of the tasks up to b, and
\* in the calls that were answered
RECURSIVE SentCount(_, _)
SentCount(text, b) ==
    IF b = 0 THEN 0
    ELSE et_sent[b].calls * Occurrences(text, Payload(b)) + SentCount(text, b - 1)

RECURSIVE AnsweredCount(_, _)
AnsweredCount(text, b) ==
    IF b = 0 THEN 0
    ELSE et_sent[b].answered * Occurrences(text, Payload(b))
         + AnsweredCount(text, b - 1)

WasCached(text) == ComputeTextHash(text) \in et_cache0

\* a cached text is never sent; after a successful call every missed hash
\* is in the cache and there is one pair per input text
CacheUse ==
    /\ \A t \in EmbedInputs : WasCached(t) => SentCount(t, Len(et_sent)) = 0
    /\ et_pc = "returned" =>
          /\ \A i \in DOMAIN et_texts : ComputeTextHash(et_texts[i]) \in et_cache
          /\ Len(et_results) = Len(et_texts)
          /\ \A t \in EmbedInputs :
                 Occurrences(ComputeTextHash(t),
                             [i \in DOMAIN et_results |-> et_results[i][1]])
                     = Occurrences(t, et_texts)

\* C25 as stated: in a non-dry-run embed_texts call a cached text is never
\* sent to the embedding API, every text that misses is sent exactly once,
\* and after a successful call every missed hash is in the cache and one
\* (text_hash, vector) pair per input text is returned.
C25_CacheUseClaimed ==
    /\ CacheUse
    /\ et_pc = "returned" =>
          \A t \in EmbedInputs :
              ~WasCached(t) => SentCount(t, Len(et_sent)) = Occurrences(t, et_texts)

\* C25 (amended): a cached text is never sent; every text that misses is
\* put in exactly one batch, so after a successful call the answered API
\* calls carry each missed text once per occurrence in the input, while a
\* batch whose call failed is sent again (at most 3 calls per batch); every
\* missed hash is then in the cache and one pair per input text is returned.
C25_CacheUse ==
    /\ CacheUse
    /\ \A t \in EmbedInputs :
           SentCount(t, Len(et_sent)) <= 3 * Occurrences(t, et_texts)
    /\ et_pc = "returned" =>
          \A t \in EmbedInputs :
              ~WasCached(t) =>
                  AnsweredCount(t, Len(et_sent)) = Occurrences(t, et_texts)

\* a call with a cached text and three misses in two batches, one of which
\* was sent twice, has returned
C25_Witness ==
    /\ et_pc = "returned"
    /\ et_bsize = 2
    /\ Len(et_misses) = 3
    /\ Len(et_tasks) = 2
    /\ et_sent = <<[calls |-> 1, answered |-> 1], [calls |-> 2, answered |-> 1]>>
    /\ {ComputeTextHash(t) : t \in EmbedInputs} \subseteq et_cache

InitTombSpec ==
    /\ InitStore
    /\ InitIndexer(1, {FALSE}, {0})
    /\ InitDaemon({1}, {1}, {1})
    /\ InitChat({1})
    /\ InitSearchIdle
    /\ ChunkIdle
    /\ RankIdle
    /\ TrimIdle
    /\ StartIdle
    /\ BkIdle
    /\ LoopIdle
    /\ OnceIdle
    /\ FeedIdle
    /\ BatchIdle
    /\ EmbedIdle
    /\ InitTomb

SpecTomb == InitTombSpec /\ [][NextTomb]_vars

\* C26: a document whose deleted_at was set when a search started appears
\* neither among the seeds of the search nor among the neighbour messages
\* of its candidates.
C26_DeletedExcluded ==
    /\ tb_seeds \cap tb_tombs = {}
    /\ tb_neighbors \cap tb_tombs = {}

\* a step of a dry run leaves the API, the cache, the chunk store and the
\* index alone, and of the metrics it adds to the allowed ones only
DryRunFrame(allowed) ==
    dry_run =>
        /\ api_calls' = api_calls
        /\ cache_writes' = cache_writes
        /\ cache' = cache
        /\ chunks' = chunks
        /\ index' = index
        /\ \A w \in Workers : \A m \in DOMAIN NoIncrements \ allowed :
               call_metrics'[w][m] = 0

\* C27 as stated: with dry_run set, processing a message makes no embedding
\* API call, no embedding-cache write, no chunk upsert and no document
\* feed; only the cost and token metrics change.
C27_DryRunFrameClaimed == [][DryRunFrame({"total_tokens", "cost_estimate"})]_vars

\* C27 (amended): with dry_run set, processing a message makes no embedding
\* API call, no embedding-cache write, no chunk upsert and no document
\* feed; of the metrics only embed_cached_hits, embed_cached_misses,
\* total_tokens and cost_estimate change.
C27_DryRunFrame ==
    [][DryRunFrame({"total_tokens", "cost_estimate", "embed_cached_hits",
                    "embed_cached_misses"})]_vars

\* over a database an earlier run has filled, a dry run has processed an
\* edited message whose chunks were found in the cache
C27_Witness ==
    /\ dry_run
    /\ chunks # <<>>
    /\ index # <<>>
    /\ \E w \in Workers :
           /\ wk_last[w] = "dry_run"
           /\ call_metrics[w].embed_cached_hits > 0

InitLoopSpec ==
    /\ InitStore
    /\ InitIndexer(1, {FALSE}, {0})
    /\ InitDaemon({1}, {1}, {1})
    /\ InitChat({1})
    /\ InitSearchIdle
    /\ ChunkIdle
    /\ RankIdle
    /\ TrimIdle
    /\ StartIdle
    /\ BkIdle
    /\ OnceIdle
    /\ FeedIdle
    /\ BatchIdle
    /\ EmbedIdle
    /\ TombIdle
    /\ InitLoop

SpecLoop == InitLoopSpec /\ [][NextLoop]_vars

\* the event loop runs every task that can go on: a worker that can take an
\* item or has a process_message call to end, and the finally block of
\* run_daemon_mode
SpecLoopFair ==
    /\ SpecLoop
    /\ WF_vars(PoolStep /\ UNCHANGED <<storeVars, ixVars, dmVars, chatVars, searchVars, onceVars, feedVars, batchVars, embedVars, tombVars, bkVars, startVars, trimVars, rkVars, chunkVars>>)
    /\ WF_vars((StopWorkersPut \/ StopWorkersJoined)
               /\ UNCHANGED <<storeVars, ixVars, dmVars, chatVars, searchVars, onceVars, feedVars, batchVars, embedVars, tombVars, bkVars, startVars, trimVars, rkVars, chunkVars>>)

\* the items put on the queue and not yet attempted
Pending == {i \in DOMAIN wl_done : i \notin wl_attempted}

AllExited == \A w \in PoolWorkers : ww[w].pc = "exited"

WorkersEventuallyExit == (sd_pc = "finally") ~> AllExited

OneSentinelEach ==
    \A w \in PoolWorkers :
        /\ wl_taken[w] <= 1
        /\ ww[w].pc = "exited" => wl_taken[w] = 1

DrainedBeforeExit ==
    AllExited => \A i \in DOMAIN wl_done : i \notin wl_late => i \in wl_attempted

NoneAfterSentinels == wl_late = {}

\* C28: once the shutdown of the daemon has started every worker eventually
\* exits, after taking exactly one None sentinel; every work item enqueued
\* before the sentinels has been processed when the workers have exited; no
\* work item is enqueued after the sentinels, none is left in the queue.
C28_ShutdownDrains ==
    /\ WorkersEventuallyExit
    /\ []OneSentinelEach
    /\ []DrainedBeforeExit
    /\ []NoneAfterSentinels

\* the queue's count of unfinished tasks is the number of entries waiting in
\* the queue plus the number of items a worker is busy with
UnfinishedCount ==
    wq_unfinished = Len(wq) + Cardinality({w \in PoolWorkers : ww[w].pc = "process"})

OneTaskDonePerItem ==
    \A i \in DOMAIN wl_done :
        /\ wl_done[i] <= 1
        /\ wl_done[i] = 1 <=> i \in wl_attempted

\* the end of a process_message call leaves the worker at the head of its loop
WorkerGoesOn ==
    \A w \in PoolWorkers : ww[w].pc = "process" => ww'[w].pc \in {"process", "get"}

\* C29: an exception raised while one message is processed never ends the
\* worker, which goes on to take the next item; task_done is called exactly
\* once per item taken from the queue, so that a join of the queue returns
\* (no unfinished task) once all the queued items have been attempted.
C29_WorkerSurvives ==
    /\ [](UnfinishedCount /\ OneTaskDonePerItem)
    /\ [][WorkerGoesOn]_vars

\* a worker is busy with a later item after one of its calls raised, and a
\* join of the queue would return after a raised call
C29_Witness ==
    /\ \E w \in PoolWorkers, i \in DOMAIN wl_done :
           /\ <<w, i>> \in wl_raised
           /\ ww[w].pc = "process"
           /\ ww[w].item > i
    /\ Cardinality(wl_attempted) >= 2

InitBackfillSpec ==
    /\ InitStore
    /\ InitIndexer(1, {FALSE}, {0})
    /\ InitDaemon({1}, {1}, {1})
    /\ InitChat({1})
    /\ InitSearchIdle
    /\ ChunkIdle
    /\ RankIdle
    /\ TrimIdle
    /\ StartIdle
    /\ OnceIdle
    /\ FeedIdle
    /\ BatchIdle
    /\ EmbedIdle
    /\ TombIdle
    /\ LoopIdle
    /\ InitBackfill({1, 2})

SpecBackfill == InitBackfillSpec /\ [][NextBackfill]_vars

\* the highest id the call has enqueued (0: none)
HighestEnqueued == IF bk_enq = {} THEN 0 ELSE CHOOSE i \in bk_enq : \A j \in bk_enq : j <= i

\* the messages the call has enqueued and the checkpoint does not cover
NotCovered == {i \in bk_enq : i > bk_ckpt}

InBackfill == bk_pc \in {"loop", "after", "returned", "raised"}

InitStartSpec ==
    /\ InitStore
    /\ InitIndexer(1, {FALSE}, {0})
    /\ InitDaemon({1}, {1}, {1})
    /\ InitChat({1})
    /\ InitSearchIdle
    /\ ChunkIdle
    /\ RankIdle
    /\ TrimIdle
    /\ OnceIdle
    /\ FeedIdle
    /\ BatchIdle
    /\ EmbedIdle
    /\ TombIdle
    /\ LoopIdle
    /\ BkIdle
    /\ InitStart

SpecStart == InitStartSpec /\ [][NextStart]_vars /\ FairStart

\* items of the backfill that are waiting or being processed
BackfillPending ==
    \/ \E i \in DOMAIN su_queue : su_queue[i] = "backfill"
    \/ \E w \in PoolWorkers : su_busy[w] = "backfill"

LookbackPending ==
    \/ \E i \in DOMAIN su_queue : su_queue[i] = "lookback"
    \/ \E w \in PoolWorkers : su_busy[w] = "lookback"

StartupOrder ==
    /\ su_pc # "register" => su_handlers
    /\ "backfill_before_handlers" \notin su_seen
    /\ su_pc \in {"lookback", "lookback_join", "tasks", "ready"} =>
           su_left = 0 /\ ~BackfillPending
    /\ su_tasks # {} => su_pc = "ready"
    /\ su_pc \in {"tasks", "ready"} => su_lb_left = 0 /\ ~LookbackPending

LookbackCalled == lb_calls' = lb_calls + 1

\* the call made in this step becomes a scan of its own: the caller holds the
\* lock and scans, or it waits for the running look-back ("wait")
CallScansOrWaits ==
    \E c \in Callers :
        /\ lb[c].pc = "idle"
        /\ lb'[c].pc \in {"scan", "wait"}

\* C32: look-back requests serialise rather than get lost: a call of the
\* look-back routine made while another look-back is running waits and
\* performs its own scan after the running one completes, so every
\* reconnection is followed by a look-back scan that starts after it.
C32_LookbackSerialises == [][LookbackCalled => CallScansOrWaits]_vars

\* the records of the window the candidate is made of (as_out non-empty)
KeptMessages ==
    LET ordered == Ordered(WithSeed(Dedup(as_msgs, EmptyDict), as_seed))
        filtered == SelectSeq(ordered, LAMBDA msg : msg.text # <<>>)
    IN  Shrink(Window(filtered, as_seed.message_id, Max(1, as_set.max_messages)),
               as_seed.message_id, Max(1, as_set.token_limit) * 4)

\* C33: for a seed with non-empty text the assembled candidate always
\* contains the seed message, also after the window is cut to max_messages
\* and after the trimming to the size cap; message_count is between 1 and
\* max_messages and span.start_id <= seed message_id <= span.end_id.
C33_SeedStays ==
    (as_pc = "done" /\ as_seed.text # <<>> /\ ~as_out.none) =>
        /\ \E i \in DOMAIN KeptMessages : KeptMessages[i].message_id = as_seed.message_id
        /\ as_out.message_count >= 1
        /\ as_out.message_count <= Max(1, as_set.max_messages)
        /\ as_out.start_id <= as_seed.message_id
        /\ as_seed.message_id <= as_out.end_id

InitTrimSpec ==
    /\ InitStore
    /\ InitIndexer(1, {FALSE}, {0})
    /\ InitDaemon({1}, {1}, {1})
    /\ InitChat({1})
    /\ InitSearchIdle
    /\ ChunkIdle
    /\ RankIdle
    /\ OnceIdle
    /\ FeedIdle
    /\ BatchIdle
    /\ EmbedIdle
    /\ TombIdle
    /\ LoopIdle
    /\ BkIdle
    /\ StartIdle
    /\ InitTrim

SpecTrim == InitTrimSpec /\ [][NextTrim]_vars

\* the position of the seed in the window (0: not in it)
SeedPosition(filtered, seed_id) ==
    IF \E i \in DOMAIN filtered : filtered[i].message_id = seed_id
    THEN CHOOSE i \in DOMAIN filtered : filtered[i].message_id = seed_id
    ELSE 0

\* position p of the window is removed by this step
Removes(p) ==
    /\ p \in DOMAIN tr_filtered
    /\ tr_filtered' = RemoveAt(tr_filtered, p)

\* no record of the window is further from the seed than the one at p
Furthest(filtered, seed_id, p) ==
    LET s == SeedPosition(filtered, seed_id)
    IN  \A q \in DOMAIN filtered : Abs(q - s) <= Abs(p - s)

TrimsFurthest ==
    tr_filtered' # tr_filtered =>
        /\ OverCap(tr_filtered, tr_max_chars)
        /\ \E p \in DOMAIN tr_filtered :
              /\ Removes(p)
              /\ tr_filtered[p].message_id # tr_seed_id
              /\ SeedPosition(tr_filtered, tr_seed_id) # 0 =>
                     Furthest(tr_filtered, tr_seed_id, p)

StopsWhenFits == tr_pc = "done" => ~OverCap(tr_filtered, tr_max_chars)

\* C34: while the candidate text is over the size cap and at least 2
\* messages remain, each step removes the remaining message that is furthest
\* from the seed (by position in the window) and never the seed; trimming
\* stops as soon as the text fits or one message remains.
C34_TrimOrder == [][TrimsFurthest]_vars /\ []StopsWhenFits
\* C35: for each deduped seed with non-empty text whose neighbour queries
\* succeed, a candidate is produced, also when the neighbour queries return
\* no messages at all (the candidate is then built from the seed alone).
C35_SeedYieldsCandidate ==
    (as_pc = "done" /\ as_seed.text # <<>>) => ~as_out.none

InitRankSpec ==
    /\ InitStore
    /\ InitIndexer(1, {FALSE}, {0})
    /\ InitDaemon({1}, {1}, {1})
    /\ InitChat({1})
    /\ InitSearchIdle
    /\ ChunkIdle
    /\ OnceIdle
    /\ FeedIdle
    /\ BatchIdle
    /\ EmbedIdle
    /\ TombIdle
    /\ LoopIdle
    /\ BkIdle
    /\ StartIdle
    /\ TrimIdle
    /\ InitRank

SpecRank == InitRankSpec /\ [][NextRank]_vars

\* the positions (from 1) the response names, in its order, without the
\* indices that are out of range
NamedCandidates ==
    LET n == Len(rk_results)
        valid == SelectSeq(rk_answer.items, LAMBDA idx : ListPosition(idx, n) # 0)
    IN  [i \in DOMAIN valid |-> ListPosition(valid[i], n)]

IsNamed(message_id) ==
    \E i \in DOMAIN NamedCandidates : NamedCandidates[i] = message_id

WellFormedSelection ==
    /\ ~rk_raised
    /\ \A i \in DOMAIN rk_out : rk_out[i].message_id \in 1..Len(rk_results)
    /\ \A i, j \in DOMAIN rk_out : i # j => rk_out[i].message_id # rk_out[j].message_id
    /\ Len(rk_out) = Min(rk_top_n, Len(rk_results))
    /\ \A i, j \in DOMAIN rk_out :
          (i < j /\ ~IsNamed(rk_out[i].message_id)) =>
              /\ ~IsNamed(rk_out[j].message_id)
              /\ rk_out[i].message_id < rk_out[j].message_id

\* C36: for any provider response (any indices in any order, repeated,
\* negative or out of range, or an error) the list returned by rerank
\* contains only candidates of the input, contains no candidate twice, has
\* length min(top_n, number of input candidates), and the candidates the
\* provider did not name follow the named ones in their original order.
C36_WellFormedRerank == rk_pc = "done" => WellFormedSelection
\* process_message lines 720-751: zip(chunk_objects, embeddings) gives the
\* document of chunk i the vector of the i-th pair
ZippedDocs(texts, embeddings) ==
    [i \in 1..Min(Len(texts), Len(embeddings)) |->
        [chunk_idx |-> i - 1, text |-> texts[i], vector |-> embeddings[i][2]]]

\* C37: for a message split into several chunks of which some are cache hits
\* and some are misses, in any pattern and with any number of batches, the
\* document built for chunk i carries the vector computed or cached for the
\* text of chunk i: the results of embed_texts are consumed in input order.
C37_VectorsOfOwnChunk ==
    et_pc = "returned" =>
        LET docs == ZippedDocs(et_texts, et_results)
        IN  /\ Len(docs) = Len(et_texts)
            /\ \A i \in DOMAIN docs :
                   docs[i].vector \in {ApiVector(docs[i].text), CachedVector(docs[i].text)}


(***************************************************************************)
(* Claims about what a failed feed leaves behind.                          *)
(***************************************************************************)
\* every chunk row of the message has its document in the search index
ReachedIndex(chat_id, message_id) ==
    \A i \in ExistingChunks(chunks, chat_id, message_id) :
        \E j \in DOMAIN index : index[j].id = chunks[i].chunk_id

\* process_message returns at line 645 without indexing
Skips(w) ==
    /\ wk[w].pc = "process"
    /\ wk'[w].pc = "idle"

\* C38: a message is recorded as ingested only if it reached the index: a
\* re-ingestion is skipped on account of the message's chunk records only
\* when every one of them has its document in the index, so a message
\* whose feed failed is fed again by a later backfill, look-back or sweep.
C38_SkipOnlyWhenIndexed ==
    [][\A w \in Workers :
        Skips(w) => ReachedIndex(wk[w].item.chat_id, wk[w].item.message_id)]_vars


(***************************************************************************)
(* Claims about the chunks of an edited message.                           *)
(***************************************************************************)
\* the chunk_ids the version of the message in the work item produces
VersionIds(item) ==
    {ChunkId(item.chat_id, item.message_id, idx - 1) : idx \in 1..NumChunks(item.text)}

\* the chunk_ids the chunk store holds for the message
StoredIds(tbl, item) ==
    {tbl[i].chunk_id : i \in ExistingChunks(tbl, item.chat_id, item.message_id)}

\* the ids of the documents the index holds for the message
IndexedIds(idx, item) ==
    {idx[j].id : j \in {d \in DOMAIN idx : /\ idx[d].id[1] = item.chat_id
                                           /\ idx[d].id[2] = item.message_id}}

\* process_message has fed the last document of a message that was stored
\* before the call: the message was processed again after an edit
Reprocessed(w) ==
    /\ wk[w].pc = "feed"
    /\ wk'[w].pc = "idle"
    /\ call_pre[w].rows # {}

\* C39: no stale chunks after an edit: after a message is re-processed
\* because its edit_date advanced, the chunk store holds exactly the chunks
\* of the new version and the index holds no document of the message with a
\* chunk_idx that the new version no longer produces.
C39_NoStaleChunks ==
    [][\A w \in Workers :
        Reprocessed(w)
        => /\ StoredIds(chunks', wk[w].item) = VersionIds(wk[w].item)
           /\ IndexedIds(index', wk[w].item) \subseteq VersionIds(wk[w].item)]_vars

InitChunkSpec ==
    /\ InitStore
    /\ InitIndexer(1, {FALSE}, {0})
    /\ InitDaemon({1}, {1}, {1})
    /\ InitChat({1})
    /\ InitSearchIdle
    /\ OnceIdle
    /\ FeedIdle
    /\ BatchIdle
    /\ EmbedIdle
    /\ TombIdle
    /\ LoopIdle
    /\ BkIdle
    /\ StartIdle
    /\ TrimIdle
    /\ RankIdle
    /\ InitChunk

SpecChunk == InitChunkSpec /\ [][NextChunk]_vars /\ FairChunk

(***************************************************************************)
(* Claims about chunk_text.                                                *)
(***************************************************************************)
\* the number of characters of the first k tokens of the text
Offset(k) == Len(Decode(SubSeq(ck_text, 1, k)))

\* chunk c holds every character of token i: the chunk's text starts at the
\* first character of token ck_starts[c] + 1
TokenInChunk(i, c) ==
    /\ Offset(i - 1) >= Offset(ck_starts[c])
    /\ Offset(i) <= Offset(ck_starts[c]) + Len(ck_chunks[c].bm25_text)

NoTextLost ==
    (ck_pc = "done" /\ ~Blank(Decode(ck_text)))
    => \A i \in DOMAIN ck_text : \E c \in DOMAIN ck_chunks : TokenInChunk(i, c)

\* C40: chunking loses no text and terminates: for any non-blank text,
\* header, target and overlap (an overlap of at least the room left by the
\* header and a header of at least the target included) chunk_text returns,
\* and every token of the text is in at least one emitted chunk, also when
\* the boundary clean-up trims the tail of a chunk that is not the last.
C40_ChunkingLosesNothing == <>(ck_pc = "done") /\ []NoTextLost
====
